---- MODULE Spec2Model ----
(***************************************************************************)
(* Model of the Mach-O signer of tugger-apple-codesign:                    *)
(*   - macho_signing.rs: check_signing_capability,                         *)
(*     create_macho_with_signature, MachOSigner (new, write_signed_binary, *)
(*     create_superblob, create_code_directory, create_special_blobs);     *)
(*   - signing.rs: SettingsScope, SigningSettings and its three descents.  *)
(*                                                                         *)
(* A file is a sequence of cells.  Every fixed-width field of a Mach-O     *)
(* header, of a load command or of a blob occupies one cell holding the    *)
(* field's value; every other byte of the file is one cell.  Offsets and   *)
(* sizes count cells, and offsets are 0-based as in the source, so the     *)
(* cell at offset o of a file d is d[o + 1].                               *)
(***************************************************************************)
EXTENDS Integers, Sequences, FiniteSets, TLC

-----------------------------------------------------------------------------
(* Sequence helpers.                                                       *)

\* b"\0".repeat(n)
Zeros(n) == [i \in 1..n |-> 0]

\* data[from..to] of Rust: the cells at 0-based offsets from .. to-1.
Slice(data, from, to) == SubSeq(data, from + 1, to)

\* str::strip_prefix / starts_with on sequences of characters.
StartsWith(s, p) == Len(p) <= Len(s) /\ SubSeq(s, 1, Len(p)) = p

StripPrefix(s, p) == SubSeq(s, Len(p) + 1, Len(s))

Max(a, b) == IF a >= b THEN a ELSE b

-----------------------------------------------------------------------------
(* Mach-O constants (goblin::mach).                                        *)

\* The two magics, scaled to fit 32-bit integers (0xfeedface, 0xfeedfacf).
MH_MAGIC == 64206

MH_MAGIC_64 == 64207

LC_SEGMENT == 1

LC_SEGMENT_64 == 25

LC_UUID == 27

LC_CODE_SIGNATURE == 29

\* Segment names, one value per name.
SEG_PAGEZERO == 1

SEG_TEXT == 2

SEG_DATA == 3

SEG_LINKEDIT == 4

CPU_TYPE_X86_64 == 16777223

CPU_TYPE_ARM64 == 16777228

\* Number of fields of the Mach-O header: the 64-bit header has a trailing
\* reserved field.
SizeofHeader(magic) == IF magic = MH_MAGIC_64 THEN 8 ELSE 7

\* Fields of a segment command: cmd, cmdsize, segname, vmaddr, vmsize,
\* fileoff, filesize, maxprot, initprot, nsects, flags.
SizeofSegmentCommand == 11

\* Fields of a linkedit data command: cmd, cmdsize, dataoff, datasize.
SizeofLinkeditDataCommand == 4

\* Positions of the fields the signer reads and writes.
HDR_CPUTYPE == 2

HDR_NCMDS == 5

LC_CMD == 1

LC_CMDSIZE == 2

SEG_NAME == 3

SEG_FILEOFF == 6

SEG_FILESIZE == 7

CS_DATAOFF == 3

CS_DATASIZE == 4

-----------------------------------------------------------------------------
(* MachO::parse: the view of a thin Mach-O the signer works on.            *)

RECURSIVE ParseLoadCommands(_, _, _)
ParseLoadCommands(data, offset, n) ==
    IF n = 0 THEN <<>>
    ELSE LET cmd == data[offset + LC_CMD]
             cmdsize == data[offset + LC_CMDSIZE]
             fixed == IF cmd = LC_CODE_SIGNATURE THEN SizeofLinkeditDataCommand
                      ELSE IF cmd \in {LC_SEGMENT, LC_SEGMENT_64}
                           THEN SizeofSegmentCommand
                      ELSE cmdsize
         IN  <<[offset |-> offset,
                cmd |-> cmd,
                cmdsize |-> cmdsize,
                command |-> Slice(data, offset, offset + fixed)]>>
             \o ParseLoadCommands(data, offset + cmdsize, n - 1)

RECURSIVE ParseSegments(_, _)
ParseSegments(data, cmds) ==
    IF cmds = <<>> THEN <<>>
    ELSE LET lc == Head(cmds)
             rest == ParseSegments(data, Tail(cmds))
         IN  IF lc.cmd \in {LC_SEGMENT, LC_SEGMENT_64}
             THEN <<[segname |-> lc.command[SEG_NAME],
                     fileoff |-> lc.command[SEG_FILEOFF],
                     filesize |-> lc.command[SEG_FILESIZE],
                     data |-> Slice(data, lc.command[SEG_FILEOFF],
                                    lc.command[SEG_FILEOFF] + lc.command[SEG_FILESIZE])]>>
                  \o rest
             ELSE rest

\* Every load command lies in the file and every segment's data does.
ParseOk(data) ==
    /\ Len(data) >= 1
    /\ data[1] \in {MH_MAGIC, MH_MAGIC_64}
    /\ Len(data) >= SizeofHeader(data[1])
    /\ LET RECURSIVE CmdsOk(_, _)
           CmdsOk(offset, n) ==
               \/ n = 0
               \/ /\ offset + LC_CMDSIZE <= Len(data)
                  /\ data[offset + LC_CMDSIZE] >= LC_CMDSIZE
                  /\ offset + data[offset + LC_CMDSIZE] <= Len(data)
                  /\ data[offset + LC_CMD] \in {LC_SEGMENT, LC_SEGMENT_64}
                        => /\ data[offset + LC_CMDSIZE] >= SizeofSegmentCommand
                           /\ data[offset + SEG_FILEOFF] + data[offset + SEG_FILESIZE]
                                 <= Len(data)
                  /\ data[offset + LC_CMD] = LC_CODE_SIGNATURE
                        => data[offset + LC_CMDSIZE] >= SizeofLinkeditDataCommand
                  /\ CmdsOk(offset + data[offset + LC_CMDSIZE], n - 1)
       IN  CmdsOk(SizeofHeader(data[1]), data[HDR_NCMDS])

ParseMachO(data) ==
    LET hsize == SizeofHeader(data[1])
        cmds == ParseLoadCommands(data, hsize, data[HDR_NCMDS])
    IN  [header |-> Slice(data, 0, hsize),
         data |-> data,
         load_commands |-> cmds,
         segments |-> ParseSegments(data, cmds)]


-----------------------------------------------------------------------------
(* find_signature_data: where the embedded signature lives.                *)

IsCodeSignature(lc) == lc.cmd = LC_CODE_SIGNATURE

\* The 1-based position of the first code-signature load command, 0 if none.
FirstCodeSignature(load_commands) ==
    IF \E i \in 1..Len(load_commands) : IsCodeSignature(load_commands[i])
    THEN CHOOSE i \in 1..Len(load_commands) :
            /\ IsCodeSignature(load_commands[i])
            /\ \A j \in 1..(i - 1) : ~IsCodeSignature(load_commands[j])
    ELSE 0

IsLinkedit(segment) == segment.segname = SEG_LINKEDIT

\* The 1-based position of the first __LINKEDIT segment, 0 if none.
FirstLinkedit(segments) ==
    IF \E i \in 1..Len(segments) : IsLinkedit(segments[i])
    THEN CHOOSE i \in 1..Len(segments) :
            /\ IsLinkedit(segments[i])
            /\ \A j \in 1..(i - 1) : ~IsLinkedit(segments[j])
    ELSE 0

\* kind is "None" when there is no code-signature load command, "Err" when
\* there is one but no __LINKEDIT segment (or the command points outside the
\* segment), and "Some" otherwise.  linkedit_segment_index is 0-based.
find_signature_data(macho) ==
    LET ci == FirstCodeSignature(macho.load_commands)
        si == FirstLinkedit(macho.segments)
        none == [kind |-> "None", linkedit_segment_index |-> 0,
                 linkedit_segment_data |-> <<>>, signature_start_offset |-> 0,
                 signature_end_offset |-> 0, linkedit_signature_start_offset |-> 0,
                 signature_data |-> <<>>]
    IN  IF ci = 0 THEN none
        ELSE IF si = 0 THEN [none EXCEPT !.kind = "Err"]
        ELSE LET command == macho.load_commands[ci].command
                 linkedit == macho.segments[si]
                 start == command[CS_DATAOFF] - linkedit.fileoff
                 end == start + command[CS_DATASIZE]
             IN  IF start < 0 \/ end > Len(linkedit.data)
                 THEN [none EXCEPT !.kind = "Err"]
                 ELSE [kind |-> "Some",
                       linkedit_segment_index |-> si - 1,
                       linkedit_segment_data |-> linkedit.data,
                       signature_start_offset |-> start,
                       signature_end_offset |-> end,
                       linkedit_signature_start_offset |-> command[CS_DATAOFF],
                       signature_data |-> Slice(linkedit.data, start, end)]

-----------------------------------------------------------------------------
(* check_signing_capability.                                               *)

\* A faulty variant of signing_capability: the two checks are swapped.
signing_capability_swapped(macho, signature) ==
    IF signature.kind = "Err" THEN "MissingLinkedit"
    ELSE IF signature.kind = "Some"
    THEN IF signature.signature_end_offset # Len(signature.linkedit_segment_data)
         THEN "DataAfterSignature"
         ELSE IF signature.linkedit_segment_index # Len(macho.segments) - 1
         THEN "LinkeditNotLast"
         ELSE "Ok"
    ELSE "BinaryNoCodeSignature"

\* The match on the outcome `signature` of find_signature_data.
signing_capability(macho, signature) ==
    IF signature.kind = "Err" THEN "MissingLinkedit"
    ELSE IF signature.kind = "Some"
    THEN IF signature.linkedit_segment_index # Len(macho.segments) - 1
         THEN "LinkeditNotLast"
         ELSE IF signature.signature_end_offset # Len(signature.linkedit_segment_data)
         THEN "DataAfterSignature"
         ELSE "Ok"
    ELSE "BinaryNoCodeSignature"

check_signing_capability(macho) ==
    signing_capability(macho, find_signature_data(macho))

-----------------------------------------------------------------------------
(* create_macho_with_signature: the rewriter.                              *)

\* The match on lc.command: the cells written for the command's struct.
written_command(lc, signature_len, new_linkedit_segment_size, original_command_data) ==
    IF lc.cmd = LC_CODE_SIGNATURE
    THEN [lc.command EXCEPT ![CS_DATASIZE] = signature_len]
    ELSE IF lc.cmd = LC_SEGMENT
    THEN IF lc.command[SEG_NAME] = SEG_LINKEDIT
         THEN [lc.command EXCEPT ![SEG_FILESIZE] = new_linkedit_segment_size]
         ELSE lc.command
    ELSE IF lc.cmd = LC_SEGMENT_64
    THEN IF lc.command[SEG_NAME] = SEG_LINKEDIT
         THEN [lc.command EXCEPT ![SEG_FILESIZE] = new_linkedit_segment_size]
         ELSE lc.command
    ELSE original_command_data

\* cursor.write_all(&original_command_data[written_len..]) after the struct.
command_tail_after(original_command_data, written) ==
    written \o Slice(original_command_data, Len(written), Len(original_command_data))

\* A faulty variant of WriteLoadCommand: the cells after a command's struct
\* are zeroed, not copied.
WriteLoadCommand_zeroed_tail(macho_data, lc, signature_len, new_linkedit_segment_size) ==
    written_command(lc, signature_len, new_linkedit_segment_size,
                    Slice(macho_data, lc.offset, lc.offset + lc.cmdsize))
    \o Zeros(lc.cmdsize
             - Len(written_command(lc, signature_len, new_linkedit_segment_size,
                                   Slice(macho_data, lc.offset, lc.offset + lc.cmdsize))))

\* A faulty variant of WriteLoadCommand: every command is copied as it is.
WriteLoadCommand_stale_sizes(macho_data, lc, signature_len, new_linkedit_segment_size) ==
    Slice(macho_data, lc.offset, lc.offset + lc.cmdsize)

\* One iteration of the load-command loop: the cells written for lc.
WriteLoadCommand(macho_data, lc, signature_len, new_linkedit_segment_size) ==
    command_tail_after(
        Slice(macho_data, lc.offset, lc.offset + lc.cmdsize),
        written_command(lc, signature_len, new_linkedit_segment_size,
                        Slice(macho_data, lc.offset, lc.offset + lc.cmdsize)))

RECURSIVE WriteLoadCommands(_, _, _, _)
WriteLoadCommands(macho_data, cmds, signature_len, new_linkedit_segment_size) ==
    IF cmds = <<>> THEN <<>>
    ELSE WriteLoadCommand(macho_data, Head(cmds), signature_len, new_linkedit_segment_size)
         \o WriteLoadCommands(macho_data, Tail(cmds), signature_len,
                              new_linkedit_segment_size)

\* One iteration of the segment loop.  cursor is what has been written so
\* far; the result is the new cursor, or "Panic" when the assertion fails or
\* a slice is out of range.
WriteSegment(cursor, segment, existing_signature, signature_data) ==
    LET position == Len(cursor)
    IN  IF ~(segment.fileoff = 0 \/ segment.fileoff = position)
        THEN [kind |-> "Panic", err |-> "", data |-> cursor]
        ELSE IF segment.segname = SEG_PAGEZERO
        THEN [kind |-> "Ok", err |-> "", data |-> cursor]
        ELSE IF segment.segname = SEG_LINKEDIT
        THEN [kind |-> "Ok", err |-> "",
              data |-> cursor
                       \o Slice(existing_signature.linkedit_segment_data, 0,
                                existing_signature.signature_start_offset)
                       \o signature_data]
        ELSE IF segment.fileoff < position
        THEN IF position > segment.filesize
             THEN [kind |-> "Panic", err |-> "", data |-> cursor]
             ELSE [kind |-> "Ok", err |-> "",
                   data |-> cursor \o Slice(segment.data, position, segment.filesize)]
        ELSE [kind |-> "Ok", err |-> "", data |-> cursor \o segment.data]

RECURSIVE WriteSegments(_, _, _, _)
WriteSegments(cursor, segments, existing_signature, signature_data) ==
    IF segments = <<>> THEN [kind |-> "Ok", err |-> "", data |-> cursor]
    ELSE LET r == WriteSegment(cursor, Head(segments), existing_signature, signature_data)
         IN  IF r.kind = "Panic" THEN r
             ELSE WriteSegments(r.data, Tail(segments), existing_signature, signature_data)

\* The result is [kind, err, data]: kind "Ok" with the new file, kind "Err"
\* with the error's name, or kind "Panic".
\* The body of create_macho_with_signature once existing_signature (the
\* outcome of find_signature_data) and the capability check are at hand.
rewrite_macho(macho_data, macho, signature_data, existing_signature, capability) ==
    IF existing_signature.kind = "Err"
    THEN [kind |-> "Err", err |-> "MissingLinkedit", data |-> <<>>]
    ELSE IF existing_signature.kind = "None"
    THEN [kind |-> "Err", err |-> "BinaryNoCodeSignature", data |-> <<>>]
    ELSE IF capability # "Ok"
    THEN [kind |-> "Err", err |-> capability, data |-> <<>>]
    ELSE WriteSegments(
             macho.header
             \o WriteLoadCommands(macho_data, macho.load_commands, Len(signature_data),
                                  existing_signature.signature_start_offset
                                  + Len(signature_data)),
             macho.segments, existing_signature, signature_data)

create_macho_with_signature(macho_data, macho, signature_data) ==
    rewrite_macho(macho_data, macho, signature_data, find_signature_data(macho),
                  check_signing_capability(macho))

-----------------------------------------------------------------------------
(* SettingsScope.  A path is a sequence of character codes.                *)

Main == [variant |-> "Main", path |-> <<>>, index |-> 0, cpu_type |-> 0]

Path(path) == [variant |-> "Path", path |-> path, index |-> 0, cpu_type |-> 0]

MultiArchIndex(index) ==
    [variant |-> "MultiArchIndex", path |-> <<>>, index |-> index, cpu_type |-> 0]

MultiArchCpuType(cpu_type) ==
    [variant |-> "MultiArchCpuType", path |-> <<>>, index |-> 0, cpu_type |-> cpu_type]

PathMultiArchIndex(path, index) ==
    [variant |-> "PathMultiArchIndex", path |-> path, index |-> index, cpu_type |-> 0]

PathMultiArchCpuType(path, cpu_type) ==
    [variant |-> "PathMultiArchCpuType", path |-> path, index |-> 0,
     cpu_type |-> cpu_type]

\* The None a key map returns for a key it drops.
NoScope == [variant |-> "None", path |-> <<>>, index |-> 0, cpu_type |-> 0]

\* A faulty variant of VariantRank: the two multi-arch variants are declared
\* in the other order.
VariantRank_cpu_before_index(variant) ==
    CASE variant = "Main" -> 0
      [] variant = "Path" -> 1
      [] variant = "MultiArchIndex" -> 3
      [] variant = "MultiArchCpuType" -> 2
      [] variant = "PathMultiArchIndex" -> 4
      [] variant = "PathMultiArchCpuType" -> 5

\* A faulty variant of VariantRank: Path is declared before Main.
VariantRank_path_before_main(variant) ==
    CASE variant = "Main" -> 1
      [] variant = "Path" -> 0
      [] variant = "MultiArchIndex" -> 2
      [] variant = "MultiArchCpuType" -> 3
      [] variant = "PathMultiArchIndex" -> 4
      [] variant = "PathMultiArchCpuType" -> 5

\* Position of a variant in the enum declaration.
VariantRank(variant) ==
    CASE variant = "Main" -> 0
      [] variant = "Path" -> 1
      [] variant = "MultiArchIndex" -> 2
      [] variant = "MultiArchCpuType" -> 3
      [] variant = "PathMultiArchIndex" -> 4
      [] variant = "PathMultiArchCpuType" -> 5

\* Ord of String: lexicographic on the character codes.
RECURSIVE StrLess(_, _)
StrLess(s, t) ==
    IF t = <<>> THEN FALSE
    ELSE IF s = <<>> THEN TRUE
    ELSE IF Head(s) # Head(t) THEN Head(s) < Head(t)
    ELSE StrLess(Tail(s), Tail(t))

\* #[derive(Ord)] of SettingsScope: the variant first, then the fields in
\* declaration order.
ScopeLess(a, b) ==
    IF a.variant # b.variant THEN VariantRank(a.variant) < VariantRank(b.variant)
    ELSE IF a.path # b.path THEN StrLess(a.path, b.path)
    ELSE IF a.index # b.index THEN a.index < b.index
    ELSE a.cpu_type < b.cpu_type

-----------------------------------------------------------------------------
(* SettingsScope as a string: Display and TryFrom<&str>.  A string is a    *)
(* sequence of character codes.                                            *)

CPU_TYPE_ARM == 12

CPU_TYPE_ARM64_32 == 33554444

\* The characters '@', '[', ']', '=', '+', '0' and '9'.
CHAR_AT == 64

CHAR_LBRACKET == 91

CHAR_RBRACKET == 93

CHAR_EQ == 61

CHAR_PLUS == 43

CHAR_0 == 48

CHAR_9 == 57

\* u32::MAX, scaled to signed 32-bit integers.
U32_MAX == 2147483647

\* usize::MAX, scaled to signed 32-bit integers.
USIZE_MAX == 2147483647

\* The digits `digits` read after the value acc: <<value>>, or <<>> when the
\* value does not fit in max.
RECURSIVE ParseDigits(_, _, _)
ParseDigits(digits, acc, max) ==
    IF digits = <<>> THEN <<acc>>
    ELSE IF acc > (max - (Head(digits) - CHAR_0)) \div 10 THEN <<>>
    ELSE ParseDigits(Tail(digits), acc * 10 + (Head(digits) - CHAR_0), max)

\* str::parse::<usize>() and str::parse::<u32>(): an optional '+', then one
\* digit or more; <<value>>, or <<>> for Err.
ParseDecimal(str, max) ==
    LET digits == IF str # <<>> /\ str[1] = CHAR_PLUS THEN Tail(str) ELSE str
    IN  IF digits = <<>> \/ \E i \in 1..Len(digits) : digits[i] \notin CHAR_0..CHAR_9
        THEN <<>>
        ELSE ParseDigits(digits, 0, max)

\* The positions of the character c in str.
PositionsOf(str, c) == {i \in 1..Len(str) : str[i] = c}

\* The greatest position of a nonempty set of positions.
LastOf(positions) == CHOOSE i \in positions : \A j \in positions : j <= i

\* A faulty variant of cpu_type_by_name: arm64_32 is taken for arm64.
cpu_type_by_name_arm64_for_arm64_32(value) ==
    IF value = <<97, 114, 109>> THEN <<CPU_TYPE_ARM>>
    ELSE IF value = <<97, 114, 109, 54, 52>> THEN <<CPU_TYPE_ARM64>>
    ELSE IF value = <<97, 114, 109, 54, 52, 95, 51, 50>> THEN <<CPU_TYPE_ARM64>>
    ELSE IF value = <<120, 56, 54, 95, 54, 52>> THEN <<CPU_TYPE_X86_64>>
    ELSE <<>>

\* The match on the names "arm", "arm64", "arm64_32" and "x86_64".
cpu_type_by_name(value) ==
    IF value = <<97, 114, 109>> THEN <<CPU_TYPE_ARM>>
    ELSE IF value = <<97, 114, 109, 54, 52>> THEN <<CPU_TYPE_ARM64>>
    ELSE IF value = <<97, 114, 109, 54, 52, 95, 51, 50>> THEN <<CPU_TYPE_ARM64_32>>
    ELSE IF value = <<120, 56, 54, 95, 54, 52>> THEN <<CPU_TYPE_X86_64>>
    ELSE <<>>

\* The result of parse_at_expr: Ok((index, cpu_type)), each <<>> for None or
\* <<v>> for Some(v), or Err(ParseSettingsScope).
AtExpr(kind, index, cpu_type) == [kind |-> kind, index |-> index, cpu_type |-> cpu_type]

\* The branch of parse_at_expr for "[key=value]": v is what the brackets
\* hold, split at its one '='.  The key must be "cpu_type".
parse_key_value(v, eq) ==
    LET key == SubSeq(v, 1, eq - 1)
        value == SubSeq(v, eq + 1, Len(v))
    IN  IF key # <<99, 112, 117, 95, 116, 121, 112, 101>> THEN AtExpr("Err", <<>>, <<>>)
        ELSE IF cpu_type_by_name(value) # <<>>
        THEN AtExpr("Ok", <<>>, cpu_type_by_name(value))
        ELSE IF ParseDecimal(value, U32_MAX) # <<>>
        THEN AtExpr("Ok", <<>>, ParseDecimal(value, U32_MAX))
        ELSE AtExpr("Err", <<>>, <<>>)

parse_at_expr(at_expr) ==
    IF ParseDecimal(at_expr, USIZE_MAX) # <<>>
    THEN AtExpr("Ok", ParseDecimal(at_expr, USIZE_MAX), <<>>)
    ELSE IF at_expr # <<>> /\ at_expr[1] = CHAR_LBRACKET
            /\ at_expr[Len(at_expr)] = CHAR_RBRACKET
    THEN IF Cardinality(PositionsOf(SubSeq(at_expr, 2, Len(at_expr) - 1), CHAR_EQ)) = 1
         THEN parse_key_value(
                  SubSeq(at_expr, 2, Len(at_expr) - 1),
                  LastOf(PositionsOf(SubSeq(at_expr, 2, Len(at_expr) - 1), CHAR_EQ)))
         ELSE AtExpr("Err", <<>>, <<>>)
    ELSE AtExpr("Err", <<>>, <<>>)

\* The result of try_from: Ok(scope), Err(ParseSettingsScope) or a panic.
ScopeResult(kind, scope) == [kind |-> kind, scope |-> scope]

\* The two matches of try_from on what parse_at_expr returned: the scope
\* without a path when path is <<>>, with the path path[1] otherwise.
scope_of_at_expr(parsed, path) ==
    IF parsed.kind = "Err" THEN ScopeResult("Err", NoScope)
    ELSE IF parsed.index # <<>> /\ parsed.cpu_type = <<>>
    THEN ScopeResult("Ok", IF path = <<>> THEN MultiArchIndex(parsed.index[1])
                 ELSE PathMultiArchIndex(path[1], parsed.index[1]))
    ELSE IF parsed.index = <<>> /\ parsed.cpu_type # <<>>
    THEN ScopeResult("Ok", IF path = <<>> THEN MultiArchCpuType(parsed.cpu_type[1])
                 ELSE PathMultiArchCpuType(path[1], parsed.cpu_type[1]))
    ELSE ScopeResult("Panic", NoScope)

\* A faulty variant of split_at_last: the string is split at its first '@'.
split_at_first(str) ==
    LET at == CHOOSE i \in PositionsOf(str, CHAR_AT) :
                  \A j \in PositionsOf(str, CHAR_AT) : i <= j
    IN  [path |-> SubSeq(str, 1, at - 1), at_expr |-> SubSeq(str, at + 1, Len(str))]

\* s.rsplitn(2, '@') of a string that holds an '@': what follows the last
\* '@' and what precedes it.
split_at_last(str) ==
    LET at == LastOf(PositionsOf(str, CHAR_AT))
    IN  [path |-> SubSeq(str, 1, at - 1), at_expr |-> SubSeq(str, at + 1, Len(str))]

\* impl TryFrom<&str> for SettingsScope
try_from(str) ==
    IF str = <<64, 109, 97, 105, 110>> THEN ScopeResult("Ok", Main)
    ELSE IF str # <<>> /\ str[1] = CHAR_AT
    THEN scope_of_at_expr(parse_at_expr(Tail(str)), <<>>)
    ELSE IF PositionsOf(str, CHAR_AT) = {} THEN ScopeResult("Ok", Path(str))
    ELSE scope_of_at_expr(parse_at_expr(split_at_last(str).at_expr),
                          <<split_at_last(str).path>>)

\* The decimal digits of n, as {} formats an integer.
RECURSIVE ToDecimal(_)
ToDecimal(n) ==
    IF n < 10 THEN <<CHAR_0 + n>>
    ELSE ToDecimal(n \div 10) \o <<CHAR_0 + (n % 10)>>

\* impl Display for SettingsScope
fmt(scope) ==
    CASE scope.variant = "Main" ->
            \* "main signing target"
            <<109, 97, 105, 110, 32, 115, 105, 103, 110, 105, 110, 103, 32, 116, 97, 114,
              103, 101, 116>>
      [] scope.variant = "Path" ->
            \* "path {}"
            <<112, 97, 116, 104, 32>> \o scope.path
      [] scope.variant = "MultiArchIndex" ->
            \* "fat/universal Mach-O binaries at index {}"
            <<102, 97, 116, 47, 117, 110, 105, 118, 101, 114, 115, 97, 108, 32, 77, 97, 99,
              104, 45, 79, 32, 98, 105, 110, 97, 114, 105, 101, 115, 32, 97, 116, 32, 105, 110, 100, 101, 120, 32>>
            \o ToDecimal(scope.index)
      [] scope.variant = "MultiArchCpuType" ->
            \* "fat/universal Mach-O binaries for CPU {}"
            <<102, 97, 116, 47, 117, 110, 105, 118, 101, 114, 115, 97, 108, 32, 77, 97, 99,
              104, 45, 79, 32, 98, 105, 110, 97, 114, 105, 101, 115, 32, 102, 111, 114, 32, 67, 80, 85, 32>>
            \o ToDecimal(scope.cpu_type)
      [] scope.variant = "PathMultiArchIndex" ->
            \* "fat/universal Mach-O binaries at index {} under path {}"
            <<102, 97, 116, 47, 117, 110, 105, 118, 101, 114, 115, 97, 108, 32, 77, 97, 99,
              104, 45, 79, 32, 98, 105, 110, 97, 114, 105, 101, 115, 32, 97, 116, 32, 105, 110, 100, 101, 120, 32>>
            \o ToDecimal(scope.index)
            \o <<32, 117, 110, 100, 101, 114, 32, 112, 97, 116, 104, 32>>
            \o scope.path
      [] scope.variant = "PathMultiArchCpuType" ->
            \* "fat/universal Mach-O binaries for CPU {} under path {}"
            <<102, 97, 116, 47, 117, 110, 105, 118, 101, 114, 115, 97, 108, 32, 77, 97, 99,
              104, 45, 79, 32, 98, 105, 110, 97, 114, 105, 101, 115, 32, 102, 111, 114, 32, 67, 80, 85, 32>>
            \o ToDecimal(scope.cpu_type)
            \o <<32, 117, 110, 100, 101, 114, 32, 112, 97, 116, 104, 32>>
            \o scope.path

-----------------------------------------------------------------------------
(* BTreeMap<SettingsScope, V>: a function whose domain is the set of keys. *)

EmptyMap == <<>>

MapInsert(map, key, value) ==
    [k \in DOMAIN map \cup {key} |-> IF k = key THEN value ELSE map[k]]

\* BTreeMap::get
MapGet(map, key) == IF key \in DOMAIN map THEN <<map[key]>> ELSE <<>>

\* The keys in iteration order: ascending.
RECURSIVE SortedKeys(_)
SortedKeys(keys) ==
    IF keys = {} THEN <<>>
    ELSE LET least == CHOOSE k \in keys : \A o \in keys \ {k} : ScopeLess(k, o)
         IN  <<least>> \o SortedKeys(keys \ {least})

\* map.clone().into_iter().filter_map(|(key, value)| key_map(key) ...)
\*    .collect::<BTreeMap<_, _>>(): entries are inserted in iteration order,
\* so of two entries mapped to one key the later one stays.
\* key_map is the closure as a function of the key.
FilterMapCollect(map, key_map) ==
    LET keys == SortedKeys(DOMAIN map)
        RECURSIVE Collect(_, _)
        Collect(i, acc) ==
            IF i > Len(keys) THEN acc
            ELSE LET mapped == key_map[keys[i]]
                 IN  IF mapped = NoScope THEN Collect(i + 1, acc)
                     ELSE Collect(i + 1, MapInsert(acc, mapped, map[keys[i]]))
    IN  Collect(1, EmptyMap)

-----------------------------------------------------------------------------
(* SigningSettings and its descents.                                       *)

GlobalFields ==
    {"signing_key", "certificates", "time_stamp_url", "team_name", "digest_type"}

ScopedFields ==
    {"identifiers", "entitlements", "designated_requirement", "code_signature_flags",
     "executable_segment_flags", "info_plist_data", "code_resources_data"}

\* The keys of the scoped fields of settings: what a key map is called with.
ScopesOf(self) == UNION {DOMAIN self[field] : field \in ScopedFields}

\* SigningSettings::default(); an absent Option is <<>>, a present one <<v>>.
DefaultSettings ==
    [signing_key |-> <<>>,
     certificates |-> <<>>,
     time_stamp_url |-> <<>>,
     team_name |-> <<>>,
     digest_type |-> "Sha256",
     identifiers |-> EmptyMap,
     entitlements |-> EmptyMap,
     designated_requirement |-> EmptyMap,
     code_signature_flags |-> EmptyMap,
     executable_segment_flags |-> EmptyMap,
     info_plist_data |-> EmptyMap,
     code_resources_data |-> EmptyMap]

\* A faulty variant of clone_with_filter_map: the global fields are those
\* of SigningSettings::default().
clone_with_filter_map_default_globals(self, key_map) ==
    [signing_key |-> DefaultSettings.signing_key,
     certificates |-> DefaultSettings.certificates,
     time_stamp_url |-> DefaultSettings.time_stamp_url,
     team_name |-> DefaultSettings.team_name,
     digest_type |-> DefaultSettings.digest_type,
     identifiers |-> FilterMapCollect(self.identifiers, key_map),
     entitlements |-> FilterMapCollect(self.entitlements, key_map),
     designated_requirement |-> FilterMapCollect(self.designated_requirement, key_map),
     code_signature_flags |-> FilterMapCollect(self.code_signature_flags, key_map),
     executable_segment_flags |-> FilterMapCollect(self.executable_segment_flags, key_map),
     info_plist_data |-> FilterMapCollect(self.info_plist_data, key_map),
     code_resources_data |-> FilterMapCollect(self.code_resources_data, key_map)]

clone_with_filter_map(self, key_map) ==
    [signing_key |-> self.signing_key,
     certificates |-> self.certificates,
     time_stamp_url |-> self.time_stamp_url,
     team_name |-> self.team_name,
     digest_type |-> self.digest_type,
     identifiers |-> FilterMapCollect(self.identifiers, key_map),
     entitlements |-> FilterMapCollect(self.entitlements, key_map),
     designated_requirement |-> FilterMapCollect(self.designated_requirement, key_map),
     code_signature_flags |-> FilterMapCollect(self.code_signature_flags, key_map),
     executable_segment_flags |-> FilterMapCollect(self.executable_segment_flags, key_map),
     info_plist_data |-> FilterMapCollect(self.info_plist_data, key_map),
     code_resources_data |-> FilterMapCollect(self.code_resources_data, key_map)]

\* The closure of as_nested_macho_settings.
nested_macho_key_map(key, index, cpu_type) ==
    IF \/ key = Main
       \/ key = MultiArchCpuType(cpu_type)
       \/ key = MultiArchIndex(index)
    THEN Main
    ELSE NoScope

as_nested_macho_settings(self, index, cpu_type) ==
    clone_with_filter_map(
        self, [key \in ScopesOf(self) |-> nested_macho_key_map(key, index, cpu_type)])

\* The closure of clone_strip_prefix.
strip_prefix_key_map(key, main_path, prefix) ==
    CASE key.variant = "Main" -> Main
      [] key.variant = "Path" ->
            IF key.path = main_path THEN Main
            ELSE IF StartsWith(key.path, prefix)
            THEN Path(StripPrefix(key.path, prefix))
            ELSE NoScope
      [] key.variant = "MultiArchIndex" -> MultiArchIndex(key.index)
      [] key.variant = "MultiArchCpuType" -> MultiArchCpuType(key.cpu_type)
      [] key.variant = "PathMultiArchIndex" ->
            IF key.path = main_path THEN MultiArchIndex(key.index)
            ELSE IF StartsWith(key.path, prefix)
            THEN PathMultiArchIndex(StripPrefix(key.path, prefix), key.index)
            ELSE NoScope
      [] key.variant = "PathMultiArchCpuType" ->
            IF key.path = main_path THEN MultiArchCpuType(key.cpu_type)
            ELSE IF StartsWith(key.path, prefix)
            THEN PathMultiArchCpuType(StripPrefix(key.path, prefix), key.cpu_type)
            ELSE NoScope

clone_strip_prefix(self, main_path, prefix) ==
    clone_with_filter_map(
        self, [key \in ScopesOf(self) |-> strip_prefix_key_map(key, main_path, prefix)])

\* The character '/'.
SLASH == 47

\* A faulty variant of bundle_prefix: the separator is left out.
bundle_prefix_no_separator(bundle_path) == bundle_path

\* format!("{}/", bundle_path)
bundle_prefix(bundle_path) == bundle_path \o <<SLASH>>

as_nested_bundle_settings(self, bundle_path) ==
    clone_strip_prefix(self, bundle_path, bundle_prefix(bundle_path))

\* path.to_string()
macho_prefix(path) == path

as_bundle_macho_settings(self, path) ==
    clone_strip_prefix(self, path, macho_prefix(path))

-----------------------------------------------------------------------------
(* Digests and blobs.                                                      *)

\* DigestType::hash_len
hash_len(digest_type) ==
    CASE digest_type = "Sha1" -> 20
      [] digest_type = "Sha256" -> 32
      [] digest_type = "Sha256Truncated" -> 20
      [] digest_type = "Sha384" -> 48
      [] digest_type = "Sha512" -> 64

\* The tag of a digest type in a Code Directory.
hash_type_tag(digest_type) ==
    CASE digest_type = "Sha1" -> 1
      [] digest_type = "Sha256" -> 2
      [] digest_type = "Sha256Truncated" -> 3
      [] digest_type = "Sha384" -> 4
      [] digest_type = "Sha512" -> 5

\* A position-weighted checksum of data[lo..hi] stands for the hash function.
RECURSIVE Checksum(_, _, _)
Checksum(data, lo, hi) ==
    IF lo > hi THEN 0
    ELSE IF lo = hi THEN (lo * ((data[lo] % 251) + 1)) % 65521
    ELSE LET mid == (lo + hi) \div 2
         IN  (Checksum(data, lo, mid) + Checksum(data, mid + 1, hi)) % 65521

\* DigestType::digest: hash_len cells, none of them zero.
digest(digest_type, data) ==
    LET c == Checksum(data, 1, Len(data)) + hash_type_tag(digest_type)
    IN  [j \in 1..hash_len(digest_type) |-> 1 + ((c + 7 * j) % 255)]

\* Digest::is_null
is_null(d) == \A j \in 1..Len(d) : d[j] = 0

\* CodeSigningSlot
SlotCodeDirectory == 0

SlotInfo == 1

SlotRequirementSet == 2

SlotResourceDir == 3

SlotEntitlements == 5

SlotSignature == 65536

\* CodeSigningMagic, scaled to fit 32-bit integers (0xfade....).
MagicRequirement == 3072

MagicRequirementSet == 3073

MagicCodeDirectory == 3074

MagicEmbeddedSignature == 3264

MagicEntitlements == 29041

MagicBlobWrapper == 2817

\* Blob::to_blob_bytes: magic, length of the whole blob, payload.
BlobBytes(magic, payload) == <<magic, 2 + Len(payload)>> \o payload

RECURSIVE Concat(_)
Concat(seqs) == IF seqs = <<>> THEN <<>> ELSE Head(seqs) \o Concat(Tail(seqs))

\* macho::create_superblob: magic, length, count, one (slot, offset) entry
\* per blob, then the blobs in the order given.
RECURSIVE SuperBlobIndex(_, _)
SuperBlobIndex(blobs, offset) ==
    IF blobs = <<>> THEN <<>>
    ELSE <<Head(blobs).slot, offset>>
         \o SuperBlobIndex(Tail(blobs), offset + Len(Head(blobs).data))

RECURSIVE SuperBlobPayload(_)
SuperBlobPayload(blobs) ==
    IF blobs = <<>> THEN <<>>
    ELSE Head(blobs).data \o SuperBlobPayload(Tail(blobs))

superblob_bytes(magic, blobs) ==
    LET index_end == 3 + 2 * Len(blobs)
        payload == SuperBlobPayload(blobs)
    IN  <<magic, index_end + Len(payload), Len(blobs)>>
        \o SuperBlobIndex(blobs, index_end) \o payload

\* parse_signature_data: the signature region must start with the
\* SuperBlob magic; `blobs` is what the region parses to in that case.
parse_signature_data(signature_data, blobs) ==
    IF Len(signature_data) = 0 \/ signature_data[1] # MagicEmbeddedSignature
    THEN [kind |-> "Err", signature |-> <<>>]
    ELSE [kind |-> "Ok", signature |-> <<blobs>>]

-----------------------------------------------------------------------------
(* Code Directory.                                                         *)

\* CodeSignatureFlags bits.
FlagBit(flag) ==
    CASE flag = "ADHOC" -> 2
      [] flag = "FORCE_HARD" -> 256
      [] flag = "RESTRICT" -> 2048
      [] flag = "RUNTIME" -> 65536
      [] flag = "LINKER_SIGNED" -> 131072
      [] flag = "MAIN_BINARY" -> 1

RECURSIVE FlagBits(_)
FlagBits(flags) ==
    IF flags = {} THEN 0
    ELSE LET f == CHOOSE x \in flags : TRUE
         IN  FlagBit(f) + FlagBits(flags \ {f})

\* CodeDirectoryVersion
VersionInitial == 131073

VersionSupportsScatter == 131328

VersionSupportsTeamId == 131584

VersionSupportsCodeLimit64 == 131840

VersionSupportsExecutableSegment == 132096

VersionSupportsRuntime == 132352

\* CodeDirectoryBlob::adjust_version: the least version that carries every
\* field that is set.
adjust_version(cd) ==
    LET v == IF cd.runtime # <<>> THEN VersionSupportsRuntime
             ELSE IF cd.exec_seg_flags # <<>> THEN VersionSupportsExecutableSegment
             ELSE IF cd.code_limit_64 # <<>> THEN VersionSupportsCodeLimit64
             ELSE IF cd.team_name # <<>> THEN VersionSupportsTeamId
             ELSE VersionInitial
    IN  [cd EXCEPT !.version = v]

OptCell(opt) == IF opt = <<>> THEN 0 ELSE opt[1]

\* A usize or a u64 is kept as four 16-bit limbs, least significant first,
\* and a u32 as two, so that values above u32::MAX exist.
LIMB == 65536

\* The limbs of a usize n that fits in 31 bits.
Usize(n) == <<n % LIMB, n \div LIMB, 0, 0>>

\* The value of a u32 given by its limbs.
U32Value(limbs) == limbs[1] + LIMB * limbs[2]

\* The special-slot hashes from the highest slot present down to slot 1; a
\* slot without a hash is written as a null digest.
RECURSIVE SpecialHashCells(_, _, _)
SpecialHashCells(special_hashes, slot, hash_size) ==
    IF slot = 0 THEN <<>>
    ELSE (IF slot \in DOMAIN special_hashes THEN special_hashes[slot]
          ELSE Zeros(hash_size))
         \o SpecialHashCells(special_hashes, slot - 1, hash_size)

MaxSlot(special_hashes) ==
    IF DOMAIN special_hashes = {} THEN 0
    ELSE CHOOSE m \in DOMAIN special_hashes : \A o \in DOMAIN special_hashes : o <= m

\* CodeDirectoryBlob::to_blob_bytes
code_directory_bytes(cd) ==
    LET fixed == <<cd.version, FlagBits(cd.flags), 0, 0,
                   MaxSlot(cd.special_hashes), Len(cd.code_hashes), U32Value(cd.code_limit),
                   cd.hash_size, hash_type_tag(cd.hash_type), cd.platform, 12, 0>>
                 \o (IF cd.version >= VersionSupportsScatter THEN <<0>> ELSE <<>>)
                 \o (IF cd.version >= VersionSupportsTeamId THEN <<0>> ELSE <<>>)
                 \o (IF cd.version >= VersionSupportsCodeLimit64
                     THEN <<0, OptCell(cd.code_limit_64)>> ELSE <<>>)
                 \o (IF cd.version >= VersionSupportsExecutableSegment
                     THEN <<0, 0, IF cd.exec_seg_flags = <<>> THEN 0
                                  ELSE FlagBits(cd.exec_seg_flags[1])>>
                     ELSE <<>>)
                 \o (IF cd.version >= VersionSupportsRuntime
                     THEN <<OptCell(cd.runtime), 0>> ELSE <<>>)
        strings == cd.ident \o <<0>>
                   \o (IF cd.team_name = <<>> THEN <<>> ELSE cd.team_name[1] \o <<0>>)
    IN  BlobBytes(MagicCodeDirectory,
                  fixed \o strings
                  \o SpecialHashCells(cd.special_hashes, MaxSlot(cd.special_hashes),
                                      cd.hash_size)
                  \o Concat(cd.code_hashes))

\* compute_code_hashes: one digest per page of [0, code limit) of the file.
PAGE_SIZE == 4096

RECURSIVE hash_pages(_, _, _, _)
hash_pages(data, from, limit, digest_type) ==
    IF from >= limit THEN <<>>
    ELSE LET to == IF from + PAGE_SIZE < limit THEN from + PAGE_SIZE ELSE limit
         IN  <<digest(digest_type, Slice(data, from, to))>>
             \o hash_pages(data, to, limit, digest_type)

\* The offset code digests stop at: the signature start if there is a
\* signature, else the end of __LINKEDIT, else the end of the last segment.
code_limit_of(macho) ==
    LET signature_data == find_signature_data(macho)
        li == FirstLinkedit(macho.segments)
    IN  IF signature_data.kind = "Some"
        THEN signature_data.linkedit_signature_start_offset
        ELSE IF li # 0
        THEN macho.segments[li].fileoff + Len(macho.segments[li].data)
        ELSE macho.segments[Len(macho.segments)].fileoff
             + Len(macho.segments[Len(macho.segments)].data)

compute_code_hashes(macho, digest_type) ==
    hash_pages(macho.data, 0, code_limit_of(macho), digest_type)

-----------------------------------------------------------------------------
(* MachOSigner::create_special_blobs, create_code_directory,               *)
(* create_cms_signature, create_superblob.                                 *)

\* RequirementSetBlob::to_blob_bytes for one designated requirement made
\* of the expressions `exprs`: count, (type, offset), the requirement blob.
requirement_set_bytes(exprs) ==
    BlobBytes(MagicRequirementSet,
              <<1, 3, 5>> \o BlobBytes(MagicRequirement, <<1>> \o Concat(exprs)))

\* EntitlementsBlob::to_blob_bytes
entitlements_bytes(entitlements) == BlobBytes(MagicEntitlements, entitlements)

\* A faulty variant of create_special_blobs: the entitlements come first.
create_special_blobs_entitlements_first(settings) ==
    LET exprs == MapGet(settings.designated_requirement, Main)
        entitlements == MapGet(settings.entitlements, Main)
    IN  (IF entitlements # <<>>
         THEN <<[slot |-> SlotEntitlements, data |-> entitlements_bytes(entitlements[1])]>>
         ELSE <<>>)
        \o (IF exprs # <<>>
            THEN <<[slot |-> SlotRequirementSet, data |-> requirement_set_bytes(exprs[1])]>>
            ELSE <<>>)

create_special_blobs(settings) ==
    LET exprs == MapGet(settings.designated_requirement, Main)
        entitlements == MapGet(settings.entitlements, Main)
    IN  (IF exprs # <<>>
         THEN <<[slot |-> SlotRequirementSet, data |-> requirement_set_bytes(exprs[1])]>>
         ELSE <<>>)
        \o (IF entitlements # <<>>
            THEN <<[slot |-> SlotEntitlements, data |-> entitlements_bytes(entitlements[1])]>>
            ELSE <<>>)

\* A faulty variant of inherited_special_hash: a null digest of the previous
\* Code Directory is inherited too.
inherited_special_hash_null_too(special_hashes, slot, data, previous_cd, digest_type) ==
    IF data # <<>>
    THEN MapInsert(special_hashes, slot, digest(digest_type, data[1]))
    ELSE IF previous_cd # <<>> /\ slot \in DOMAIN previous_cd[1].special_hashes
    THEN MapInsert(special_hashes, slot, previous_cd[1].special_hashes[slot])
    ELSE special_hashes

\* The special hash of an Info.plist or CodeResources slot: the digest of the
\* scope's data, else the previous Code Directory's digest unless null.
inherited_special_hash(special_hashes, slot, data, previous_cd, digest_type) ==
    IF data # <<>>
    THEN MapInsert(special_hashes, slot, digest(digest_type, data[1]))
    ELSE IF previous_cd # <<>>
            /\ slot \in DOMAIN previous_cd[1].special_hashes
            /\ ~is_null(previous_cd[1].special_hashes[slot])
    THEN MapInsert(special_hashes, slot, previous_cd[1].special_hashes[slot])
    ELSE special_hashes

\* A faulty variant of special_blob_hashes: the digest is taken over the
\* payload of the blob, without its magic and length.
special_blob_hashes_of_payload(blobs, digest_type) ==
    [slot \in {blobs[i].slot : i \in 1..Len(blobs)} |->
        LET at == CHOOSE j \in 1..Len(blobs) : blobs[j].slot = slot
        IN  digest(digest_type, Tail(Tail(blobs[at].data)))]

\* The digest of each special blob, by slot.
special_blob_hashes(blobs, digest_type) ==
    [slot \in {blobs[i].slot : i \in 1..Len(blobs)} |->
        LET at == CHOOSE j \in 1..Len(blobs) : blobs[j].slot = slot
        IN  digest(digest_type, blobs[at].data)]

\* A faulty variant of code_limits: the limit is cast to u32 whatever it is.
code_limits_truncated(limit) ==
    [code_limit |-> <<limit[1], limit[2]>>, code_limit_64 |-> <<>>]

\* code_limit (u32) and code_limit_64 (Option<u64>) of a Code Directory whose
\* code ends at limit (usize): limit > u32::MAX iff an upper limb is set.
code_limits(limit) ==
    IF limit[3] # 0 \/ limit[4] # 0
    THEN [code_limit |-> <<0, 0>>, code_limit_64 |-> <<limit>>]
    ELSE [code_limit |-> <<limit[1], limit[2]>>, code_limit_64 |-> <<>>]

\* A faulty variant of code_directory_flags: the scope's flags are added to
\* the previous Code Directory's.
code_directory_flags_or_previous(scope_flags, previous_cd, signing_key) ==
    LET flags0 == (IF scope_flags # <<>> THEN scope_flags[1] ELSE {})
                  \cup (IF previous_cd # <<>> THEN previous_cd[1].flags ELSE {})
        flags1 == IF signing_key = <<>> THEN flags0 \cup {"ADHOC"}
                  ELSE flags0 \ {"ADHOC"}
    IN  flags1 \ {"LINKER_SIGNED"}

\* A faulty variant of code_directory_flags: the adhoc flag is set without a
\* key and never cleared.
code_directory_flags_adhoc_kept(scope_flags, previous_cd, signing_key) ==
    LET flags0 == IF scope_flags # <<>> THEN scope_flags[1]
                  ELSE IF previous_cd # <<>> THEN previous_cd[1].flags
                  ELSE {}
        flags1 == IF signing_key = <<>> THEN flags0 \cup {"ADHOC"} ELSE flags0
    IN  flags1 \ {"LINKER_SIGNED"}

\* The flags of the Code Directory: the scope's, else the previous Code
\* Directory's; ADHOC set without a signing key and cleared with one;
\* LINKER_SIGNED cleared.
code_directory_flags(scope_flags, previous_cd, signing_key) ==
    LET flags0 == IF scope_flags # <<>> THEN scope_flags[1]
                  ELSE IF previous_cd # <<>> THEN previous_cd[1].flags
                  ELSE {}
        flags1 == IF signing_key = <<>> THEN flags0 \cup {"ADHOC"}
                  ELSE flags0 \ {"ADHOC"}
    IN  flags1 \ {"LINKER_SIGNED"}

\* A faulty variant of code_directory_ident: the previous Code Directory's
\* identifier is preferred to the scope's.
code_directory_ident_previous_first(scope_ident, previous_cd) ==
    IF previous_cd # <<>> THEN <<previous_cd[1].ident>>
    ELSE IF scope_ident # <<>> THEN <<scope_ident[1]>>
    ELSE <<>>

\* The identifier of the Code Directory: <<ident>>, the scope's, else the
\* previous Code Directory's; <<>> for Err(NoIdentifier).
code_directory_ident(scope_ident, previous_cd) ==
    IF scope_ident # <<>> THEN <<scope_ident[1]>>
    ELSE IF previous_cd # <<>> THEN <<previous_cd[1].ident>>
    ELSE <<>>

\* A faulty variant of inherited_option: nothing is inherited.
inherited_option_own_only(own, previous_cd, field) == own

\* exec_seg_flags and team_name of the Code Directory: the settings' value
\* `own` when there is one, else the previous Code Directory's, else None.
inherited_option(own, previous_cd, field) ==
    IF own # <<>> THEN own
    ELSE IF previous_cd # <<>> THEN previous_cd[1][field]
    ELSE <<>>

\* signature is <<>> or <<s>>, s.code_directory is <<>> or <<cd>>.
\* The result is [kind, err, cd].
create_code_directory(settings, macho, signature) ==
    LET previous_cd == IF signature = <<>> THEN <<>> ELSE signature[1].code_directory
        flags == code_directory_flags(MapGet(settings.code_signature_flags, Main),
                                      previous_cd, settings.signing_key)
        limits == code_limits(Usize(code_limit_of(macho)))
        exec_seg_flags == inherited_option(MapGet(settings.executable_segment_flags, Main),
                                           previous_cd, "exec_seg_flags")
        runtime == IF previous_cd # <<>> THEN previous_cd[1].runtime ELSE <<>>
        code_hashes == compute_code_hashes(macho, settings.digest_type)
        special0 == special_blob_hashes(create_special_blobs(settings),
                                        settings.digest_type)
        special1 == inherited_special_hash(special0, SlotInfo,
                                           MapGet(settings.info_plist_data, Main),
                                           previous_cd, settings.digest_type)
        special_hashes == inherited_special_hash(special1, SlotResourceDir,
                                                 MapGet(settings.code_resources_data, Main),
                                                 previous_cd, settings.digest_type)
        ident == code_directory_ident(MapGet(settings.identifiers, Main), previous_cd)
        team_name == inherited_option(settings.team_name, previous_cd, "team_name")
        cd == [version |-> 0,
               flags |-> flags,
               code_limit |-> limits.code_limit,
               hash_size |-> hash_len(settings.digest_type),
               hash_type |-> settings.digest_type,
               platform |-> 0,
               page_size |-> PAGE_SIZE,
               code_limit_64 |-> limits.code_limit_64,
               exec_seg_flags |-> exec_seg_flags,
               runtime |-> runtime,
               ident |-> IF ident # <<>> THEN ident[1] ELSE <<>>,
               team_name |-> team_name,
               code_hashes |-> code_hashes,
               special_hashes |-> special_hashes]
    IN  IF find_signature_data(macho).kind = "Err"
        THEN [kind |-> "Err", err |-> "MissingLinkedit", cd |-> <<>>]
        ELSE IF ident = <<>>
        THEN [kind |-> "Err", err |-> "NoIdentifier", cd |-> <<>>]
        ELSE [kind |-> "Ok", err |-> "", cd |-> adjust_version(cd)]

\* create_cms_signature: the DER of the SignedData the CMS library builds
\* over the Code Directory.  Its length is the library's and the time-stamp
\* server's choice: `extra` cells follow the message digest.
cms_signature_bytes(code_directory, extra) ==
    <<48>> \o digest(code_directory.hash_type, code_directory_bytes(code_directory))
    \o [i \in 1..extra |-> 49]

\* cms is the outcome of the CMS library should it be called: [kind, extra].
\* The result is [kind, err, data, blobs, code_directory]: the SuperBlob, and
\* the locals blobs and code_directory of create_superblob (<<>> or <<cd>>).
\* The calls one create_superblob makes once it has a Code Directory:
\* create_cms_signature when there is a signing key, and in it the
\* time-stamp server when there is a time-stamp URL too.
cms_calls_of(settings) ==
    IF settings.signing_key = <<>> THEN [cms |-> 0, time_stamp |-> 0]
    ELSE [cms |-> 1, time_stamp |-> IF settings.time_stamp_url # <<>> THEN 1 ELSE 0]

assemble_superblob(settings, code_directory, cms) ==
    LET first == <<[slot |-> SlotCodeDirectory,
                    data |-> code_directory_bytes(code_directory.cd)]>>
        special == create_special_blobs(settings)
        last == IF settings.signing_key # <<>>
                THEN <<[slot |-> SlotSignature,
                        data |-> BlobBytes(MagicBlobWrapper,
                                           cms_signature_bytes(code_directory.cd,
                                                               cms.extra))]>>
                ELSE <<>>
        blobs == first \o special \o last
        calls == cms_calls_of(settings)
    IN  IF code_directory.kind = "Err"
        THEN [kind |-> "Err", err |-> code_directory.err, data |-> <<>>, blobs |-> <<>>,
              code_directory |-> <<>>, cms_calls |-> [cms |-> 0, time_stamp |-> 0]]
        ELSE IF settings.signing_key # <<>> /\ cms.kind = "Err"
        THEN [kind |-> "Err", err |-> "Cms", data |-> <<>>, blobs |-> <<>>,
              code_directory |-> <<code_directory.cd>>, cms_calls |-> calls]
        ELSE [kind |-> "Ok", err |-> "",
              data |-> superblob_bytes(MagicEmbeddedSignature, blobs),
              blobs |-> blobs,
              code_directory |-> <<code_directory.cd>>, cms_calls |-> calls]

create_superblob(settings, macho, signature, cms) ==
    assemble_superblob(settings, create_code_directory(settings, macho, signature), cms)

-----------------------------------------------------------------------------
(* The input files: Mach-O images built from a layout.                     *)

\* A segment load command followed by `sections`, its trailing cells.
SegmentCommand(is64, segname, fileoff, filesize, sections) ==
    <<IF is64 THEN LC_SEGMENT_64 ELSE LC_SEGMENT,
      SizeofSegmentCommand + Len(sections),
      segname, 4096 * segname, 4096, fileoff, filesize, 7, 5, Len(sections), 0>>
    \o sections

\* The file of a layout l:
\*   header; [__PAGEZERO]; __TEXT (+ l.nsects section cells); __DATA if
\*   l.data >= 0, before or after __LINKEDIT; [LC_UUID]; [LC_CODE_SIGNATURE
\*   (+ l.cs_extra cells)]; then the rest of __TEXT (l.text cells), __DATA
\*   (l.data cells) and __LINKEDIT: l.pre cells, the old signature
\*   (l.old_sig cells), l.trail cells.  The segment in the place of
\*   __LINKEDIT is named l.linkedit_name.
\* Content cells hold 100 + their offset, so no two of them are equal; the
\* old signature starts with the SuperBlob magic when l.valid_sig.
BuildMachO(l) ==
    LET magic == IF l.is64 THEN MH_MAGIC_64 ELSE MH_MAGIC
        hsize == SizeofHeader(magic)
        has_data == l.data >= 0
        data_len == Max(l.data, 0)
        ncmds == (IF l.pagezero THEN 1 ELSE 0) + 1 + (IF has_data THEN 1 ELSE 0) + 1
                 + (IF l.uuid THEN 1 ELSE 0) + (IF l.has_sig THEN 1 ELSE 0)
        sizeofcmds == (IF l.pagezero THEN SizeofSegmentCommand ELSE 0)
                      + SizeofSegmentCommand + l.nsects
                      + (IF has_data THEN SizeofSegmentCommand ELSE 0)
                      + SizeofSegmentCommand
                      + (IF l.uuid THEN 4 ELSE 0)
                      + (IF l.has_sig THEN SizeofLinkeditDataCommand + l.cs_extra ELSE 0)
        text_end == hsize + sizeofcmds + l.text
        linkedit_size == l.pre + (IF l.has_sig THEN l.old_sig ELSE 0) + l.trail
        linkedit_off == (IF l.linkedit_last THEN text_end + data_len ELSE text_end)
                        + l.gap
        data_off == IF l.linkedit_last THEN text_end ELSE text_end + linkedit_size
        data_zero == l.data_at_zero /\ data_len = 0
        total == text_end + data_len + l.gap + linkedit_size
        header == <<magic, l.cputype, 3, 2, ncmds, sizeofcmds, 0>>
                  \o (IF l.is64 THEN <<0>> ELSE <<>>)
        data_cmd == IF has_data
                    THEN SegmentCommand(l.is64, SEG_DATA,
                                        IF data_zero THEN 0 ELSE data_off, data_len, <<>>)
                    ELSE <<>>
        commands ==
            (IF l.pagezero THEN SegmentCommand(l.is64, SEG_PAGEZERO, 0, 0, <<>>) ELSE <<>>)
            \o SegmentCommand(l.is64, SEG_TEXT, 0, text_end, [i \in 1..l.nsects |-> 60 + i])
            \o (IF l.linkedit_last THEN data_cmd ELSE <<>>)
            \o SegmentCommand(l.is64, l.linkedit_name, linkedit_off, linkedit_size, <<>>)
            \o (IF l.linkedit_last THEN <<>> ELSE data_cmd)
            \o (IF l.uuid THEN <<LC_UUID, 4, 71, 72>> ELSE <<>>)
            \o (IF l.has_sig
                THEN <<LC_CODE_SIGNATURE, SizeofLinkeditDataCommand + l.cs_extra,
                       linkedit_off + l.pre, l.old_sig>>
                     \o [i \in 1..l.cs_extra |-> 80 + i]
                ELSE <<>>)
        content(offset) ==
            IF l.has_sig /\ l.valid_sig /\ l.old_sig > 0 /\ offset = linkedit_off + l.pre
            THEN MagicEmbeddedSignature
            ELSE 100 + offset
    IN  header \o commands
        \o [i \in 1..(total - hsize - sizeofcmds) |-> content(hsize + sizeofcmds + i - 1)]


-----------------------------------------------------------------------------
(* The inputs of a signing run.                                            *)

\* Largest number of __DATA cells, of __LINKEDIT cells before the signature,
\* of cells of the old signature, and of trailing cells of load commands.
MaxData == 1

MaxPre == 1

MaxOldSig == 1

MaxExtra == 1

\* Largest number of slices of a fat binary.
MaxSlices == 2

\* What makes a Mach-O unsignable, if anything.
Defects ==
    {"none", "no_signature", "linkedit_not_last", "data_after_signature",
     "not_last_and_data_after"}

Layout(is64, pagezero, extra, data, pre, old_sig, valid_sig, defect, cputype) ==
    [is64 |-> is64,
     cputype |-> cputype,
     pagezero |-> pagezero,
     nsects |-> extra,
     uuid |-> extra > 0,
     cs_extra |-> extra,
     text |-> 2,
     data |-> IF defect \in {"linkedit_not_last", "not_last_and_data_after"}
              THEN Max(data, 0) ELSE data,
     data_at_zero |-> FALSE,
     gap |-> 0,
     linkedit_last |-> defect \notin {"linkedit_not_last", "not_last_and_data_after"},
     linkedit_name |-> SEG_LINKEDIT,
     has_sig |-> defect # "no_signature",
     pre |-> pre,
     old_sig |-> old_sig,
     valid_sig |-> valid_sig,
     trail |-> IF defect \in {"data_after_signature", "not_last_and_data_after"}
               THEN 1 ELSE 0]

Layouts ==
    {Layout(is64, pagezero, extra, data, pre, old_sig, old_sig > 0, defect,
            CPU_TYPE_X86_64) :
        is64 \in BOOLEAN, pagezero \in BOOLEAN, extra \in 0..MaxExtra,
        data \in (-1)..MaxData, pre \in 0..MaxPre, old_sig \in 0..MaxOldSig,
        defect \in Defects}

\* The layouts of the runs that vary the settings and the old signature.
CoreLayout(is64, valid_sig, cputype) ==
    Layout(is64, is64, IF is64 THEN 1 ELSE 0, IF is64 THEN 1 ELSE -1, 1, 1, valid_sig,
           "none", cputype)

\* Code Directories of old signatures.
PrevCD1 ==
    [flags |-> {"ADHOC", "LINKER_SIGNED"},
     exec_seg_flags |-> <<>>,
     runtime |-> <<>>,
     ident |-> <<97>>,
     team_name |-> <<>>,
     special_hashes |-> EmptyMap]

PrevCD2 ==
    [flags |-> {"RUNTIME"},
     exec_seg_flags |-> <<{"MAIN_BINARY"}>>,
     runtime |-> <<658944>>,
     ident |-> <<97, 98>>,
     team_name |-> <<<<84>>>>,
     special_hashes |-> (SlotInfo :> digest("Sha1", <<1>>))
                        @@ (SlotResourceDir :> Zeros(20))
                        @@ (SlotEntitlements :> digest("Sha1", <<2>>))]

\* What an old signature parses to (EmbeddedSignature::code_directory).
PrevSignatures ==
    {[code_directory |-> <<>>], [code_directory |-> <<PrevCD1>>],
     [code_directory |-> <<PrevCD2>>]}

\* One Mach-O of the input: its bytes, and what its signature region parses
\* to when it starts with the SuperBlob magic.
SliceOf(layout, blobs) == [data |-> BuildMachO(layout), blobs |-> blobs]

\* The fat_arch record of slice i (0-based) of a fat input.
ArchOf(layout, i, size) ==
    [cputype |-> layout.cputype, cpusubtype |-> 3, offset |-> 4096 * (i + 1),
     size |-> size, align |-> 12]

ThinInput(layout, blobs) ==
    [fat |-> FALSE, arches |-> <<>>, slices |-> <<SliceOf(layout, blobs)>>]

FatInput(layouts, blobs) ==
    [fat |-> TRUE,
     arches |-> [i \in 1..Len(layouts) |->
                    ArchOf(layouts[i], i - 1, Len(BuildMachO(layouts[i])))],
     slices |-> [i \in 1..Len(layouts) |-> SliceOf(layouts[i], blobs[i])]]

\* The settings of the signing runs.
KEY == <<"key">>

SigningChoices ==
    {[DefaultSettings EXCEPT !.identifiers = MapInsert(EmptyMap, Main, <<105>>)],
     [DefaultSettings EXCEPT !.signing_key = KEY,
                             !.time_stamp_url = <<"url">>,
                             !.identifiers = MapInsert(EmptyMap, Main, <<105>>),
                             !.entitlements =
                                 MapInsert(EmptyMap, MultiArchCpuType(CPU_TYPE_ARM64),
                                           <<101>>)],
     DefaultSettings,
     [DefaultSettings EXCEPT !.signing_key = KEY,
                             !.identifiers =
                                 MapInsert(EmptyMap, MultiArchIndex(0), <<105, 48>>),
                             !.designated_requirement =
                                 MapInsert(EmptyMap, Main, <<<<114>>>>)]}

\* Settings of the main scope that set the flags, the special blobs, the
\* Info.plist and the Code Resources; they sign the thin inputs.
MainScopeChoices ==
    {[DefaultSettings EXCEPT !.signing_key = KEY,
                             !.identifiers = MapInsert(EmptyMap, Main, <<105>>),
                             !.code_signature_flags =
                                 MapInsert(EmptyMap, Main,
                                           {"FORCE_HARD", "ADHOC", "LINKER_SIGNED"}),
                             !.designated_requirement =
                                 MapInsert(EmptyMap, Main, <<<<114>>>>),
                             !.entitlements = MapInsert(EmptyMap, Main, <<101>>),
                             !.info_plist_data = MapInsert(EmptyMap, Main, <<73>>)],
     [DefaultSettings EXCEPT !.code_signature_flags = MapInsert(EmptyMap, Main, {}),
                             !.designated_requirement =
                                 MapInsert(EmptyMap, Main, <<<<114>>>>),
                             !.entitlements = MapInsert(EmptyMap, Main, <<101>>),
                             !.code_resources_data = MapInsert(EmptyMap, Main, <<82>>)]}

PlainSettings == [DefaultSettings EXCEPT !.identifiers = MapInsert(EmptyMap, Main, <<105>>)]

CoreSlices ==
    {<<CoreLayout(is64, valid, cpu), blobs>> :
        is64 \in BOOLEAN, valid \in BOOLEAN, cpu \in {CPU_TYPE_X86_64, CPU_TYPE_ARM64},
        blobs \in PrevSignatures}

FatSlices ==
    {<<CoreLayout(TRUE, TRUE, CPU_TYPE_ARM64), [code_directory |-> <<PrevCD1>>]>>,
     <<CoreLayout(FALSE, TRUE, CPU_TYPE_X86_64), [code_directory |-> <<>>]>>}

\* The inputs: every layout under the plain settings, the core layouts under
\* every choice of settings and old signature, and fat binaries.
\* Signable layouts whose segments do not follow each other in the file: an
\* empty __DATA recorded at offset 0, or cells no segment holds before
\* __LINKEDIT.
ScatteredLayouts ==
    {[l EXCEPT !.data_at_zero = scatter[1], !.gap = scatter[2]] :
        l \in {x \in Layouts : x.data = 0 /\ x.linkedit_last /\ x.has_sig /\ x.trail = 0},
        scatter \in {<<TRUE, 0>>, <<FALSE, 1>>, <<TRUE, 1>>}}

SigningInputs ==
    {[input |-> ThinInput(l, [code_directory |-> <<PrevCD1>>]), settings |-> PlainSettings] :
        l \in Layouts \cup ScatteredLayouts}
    \cup {[input |-> ThinInput(c[1], c[2]), settings |-> s] :
            c \in CoreSlices, s \in SigningChoices \cup MainScopeChoices}
    \cup UNION {{[input |-> FatInput([i \in 1..n |-> f[i][1]], [i \in 1..n |-> f[i][2]]),
                  settings |-> s] :
                    f \in [1..n -> FatSlices], s \in SigningChoices} :
                n \in 1..MaxSlices}

-----------------------------------------------------------------------------
(* State.                                                                  *)

VARIABLES
    input,                    \* the file given to MachOSigner::new, parsed by Mach::parse
    settings,                 \* the caller's SigningSettings
    pc,                       \* where the signer is
    index,                    \* the slice write_signed_binary is signing (0-based)
    placeholder_signature_len,\* locals of the closure signing a slice
    placeholder_signature,
    intermediate_macho_data,
    superblob,                \* signature_data as create_superblob returned it in pass 2
    signature_data,           \* the same, padded
    last_code_directory,      \* code_directory of the slice's last create_superblob: <<>> or <<cd>>
    last_blobs,               \* blobs of that call, <<>> when it returned Err
    binaries,                 \* the signed slices collected so far
    writer,                   \* what has been written to the caller's writer
    result,                   \* "" while running, then "Ok" or the error
    parent,                   \* settings descent: the settings descended from
    descent,                  \* settings descent: the last descent and its arguments
    scope_form,               \* scope strings: how the string was written
    scope_text,               \* scope strings: the string
    scope_result,             \* scope strings: what try_from returned for it
    limit,                    \* code limit: a limit (usize) the Code Directory is to hold
    limits,                   \* code limit: <<>>, then <<(code_limit, code_limit_64)>> for it
    current_offset,           \* fat padding: a running offset of the fat writer
    pad_bytes,                \* fat padding: <<>>, then <<the padding computed for it>>
    cms_calls                 \* per slice begun, the calls of create_cms_signature and of
                              \* the time-stamp server made for it

vars ==
    <<input, settings, pc, index, placeholder_signature_len, placeholder_signature,
      intermediate_macho_data, superblob, signature_data, last_code_directory,
      last_blobs, binaries, writer, result, parent, descent, scope_form, scope_text,
      scope_result, limit, limits, current_offset, pad_bytes, cms_calls>>

\* The locals of the closure that signs one slice.
locals ==
    <<placeholder_signature_len, placeholder_signature, intermediate_macho_data,
      superblob, signature_data>>

descent_vars == <<parent, descent>>

scope_vars == <<scope_form, scope_text, scope_result>>

\* The locals of the last call of create_superblob for the slice.
superblob_vars == <<last_code_directory, last_blobs>>

\* A scope string as its writer composed it: the syntax form, and the path,
\* the integer's digits and the CPU name the form is made of.  The form
\* "display" is a string Display wrote for `scope`; the form "other" is the
\* string `path`, of no documented form.
ScopeForm(form, path, number, name, scope) ==
    [form |-> form, path |-> path, number |-> number, name |-> name, scope |-> scope]

\* try_from has not run on scope_text.
NotParsed == [kind |-> "", scope |-> NoScope]

NoDescent == [op |-> "none", path |-> <<>>, index |-> 0, cpu_type |-> 0, depth |-> 0]

\* self.machos[i] and self.macho_data(i), i 0-based.
macho_data(i) == input.slices[i + 1].data

Machos(i) == ParseMachO(macho_data(i))

NumSlices == Len(input.slices)

\* original_macho.header.cputype()
CpuTypeOf(macho) == macho.header[HDR_CPUTYPE]

\* The sizes of the fat header and of one fat arch record, in bytes.
SIZEOF_FAT_HEADER == 8

SIZEOF_FAT_ARCH == 20

\* The slack added to the nominal SuperBlob length.
PLACEHOLDER_SLACK == 1024

\* Outcomes of one call of the CMS library: a SignedData with `extra` cells
\* after the message digest, or an error.
CmsDrift == 1

CmsOutcomes ==
    {[kind |-> "Ok", extra |-> e] :
        e \in {0, PLACEHOLDER_SLACK, PLACEHOLDER_SLACK + CmsDrift}}
    \cup {[kind |-> "Err", extra |-> 0]}

Init ==
    /\ \E i \in SigningInputs : input = i.input /\ settings = i.settings
    /\ pc = "new"
    /\ index = 0
    /\ placeholder_signature_len = 0
    /\ placeholder_signature = <<>>
    /\ intermediate_macho_data = <<>>
    /\ superblob = <<>>
    /\ signature_data = <<>>
    /\ last_code_directory = <<>>
    /\ last_blobs = <<>>
    /\ binaries = <<>>
    /\ writer = <<>>
    /\ result = ""
    /\ parent = DefaultSettings
    /\ descent = NoDescent
    /\ scope_form = ScopeForm("path", <<>>, <<>>, <<>>, NoScope)
    /\ scope_text = <<>>
    /\ scope_result = NotParsed
    /\ limit = Usize(0)
    /\ limits = <<>>
    /\ current_offset = SIZEOF_FAT_HEADER + SIZEOF_FAT_ARCH
    /\ pad_bytes = <<>>
    /\ cms_calls = <<>>

\* The first slice the capability check rejects, 0 if none.
FirstUnsignable ==
    IF \E i \in 1..NumSlices : check_signing_capability(Machos(i - 1)) # "Ok"
    THEN CHOOSE i \in 1..NumSlices :
            /\ check_signing_capability(Machos(i - 1)) # "Ok"
            /\ \A j \in 1..(i - 1) : check_signing_capability(Machos(j - 1)) = "Ok"
    ELSE 0

\* MachOSigner::new; on success the caller goes on to write_signed_binary.
New ==
    /\ pc = "new"
    /\ \E first \in {FirstUnsignable} :
           IF first = 0
           THEN pc' = "pass1" /\ result' = result
           ELSE /\ pc' = "failed"
                /\ result' = check_signing_capability(Machos(first - 1))
    /\ UNCHANGED <<input, settings, index, locals, binaries, writer, descent_vars, scope_vars, limit, limits, current_offset, pad_bytes, cms_calls, superblob_vars>>

\* The settings and the old signature of slice i (0-based).
slice_settings(i) == as_nested_macho_settings(settings, i, CpuTypeOf(Machos(i)))

signature_of(found, blobs) ==
    IF found.kind = "Some"
    THEN parse_signature_data(found.signature_data, blobs)
    ELSE [kind |-> "Ok", signature |-> <<>>]

slice_signature(i) ==
    signature_of(find_signature_data(Machos(i)), input.slices[i + 1].blobs)

\* write_signed_binary, a slice's closure up to the placeholder.  The
\* closure starts with fresh locals.
Pass1 ==
    /\ pc = "pass1"
    /\ \E cms \in CmsOutcomes, signature \in {slice_signature(index)} :
         \E sb \in {create_superblob(slice_settings(index), Machos(index),
                                     signature.signature, cms)} :
             IF signature.kind = "Err"
             THEN /\ pc' = "failed" /\ result' = "ParseSignature"
                  /\ placeholder_signature_len' = 0
                  /\ placeholder_signature' = <<>>
                  /\ last_code_directory' = <<>>
                  /\ last_blobs' = <<>>
                  /\ cms_calls' = Append(cms_calls, [cms |-> 0, time_stamp |-> 0])
             ELSE IF sb.kind = "Err"
             THEN /\ pc' = "failed" /\ result' = sb.err
                  /\ placeholder_signature_len' = 0
                  /\ placeholder_signature' = <<>>
                  /\ last_code_directory' = sb.code_directory
                  /\ last_blobs' = <<>>
                  /\ cms_calls' = Append(cms_calls, sb.cms_calls)
             ELSE /\ pc' = "intermediate" /\ result' = result
                  /\ placeholder_signature_len' = Len(sb.data)
                  /\ placeholder_signature' = Zeros(Len(sb.data) + PLACEHOLDER_SLACK)
                  /\ last_code_directory' = sb.code_directory
                  /\ last_blobs' = sb.blobs
                  /\ cms_calls' = Append(cms_calls, sb.cms_calls)
    /\ intermediate_macho_data' = <<>>
    /\ superblob' = <<>>
    /\ signature_data' = <<>>
    /\ UNCHANGED <<input, settings, index, binaries, writer, descent_vars, scope_vars, limit, limits, current_offset, pad_bytes>>

\* The first call of the rewriter and the parse of what it returns.
Intermediate ==
    /\ pc = "intermediate"
    /\ \E r \in {create_macho_with_signature(macho_data(index), Machos(index),
                                              placeholder_signature)} :
           IF r.kind = "Panic"
           THEN /\ pc' = "panicked" /\ result' = "Panic"
                /\ UNCHANGED intermediate_macho_data
           ELSE IF r.kind = "Err"
           THEN /\ pc' = "failed" /\ result' = r.err
                /\ UNCHANGED intermediate_macho_data
           ELSE IF ~ParseOk(r.data)
           THEN /\ pc' = "failed" /\ result' = "Parse"
                /\ UNCHANGED intermediate_macho_data
           ELSE /\ pc' = "pass2" /\ result' = result
                /\ intermediate_macho_data' = r.data
    /\ UNCHANGED <<input, settings, index, placeholder_signature_len,
                   placeholder_signature, superblob, signature_data, binaries, writer,
                   descent_vars, scope_vars, limit, limits, current_offset, pad_bytes, cms_calls, superblob_vars>>

\* A faulty variant of signature_too_large: equal lengths are rejected too.
signature_too_large_or_equal(signature_data_len, placeholder_len) ==
    signature_data_len >= placeholder_len

\* Ordering::Greater of signature_data.len().cmp(&placeholder_signature.len()).
signature_too_large(signature_data_len, placeholder_len) ==
    signature_data_len > placeholder_len

\* A faulty variant of pad_signature_data: no padding.
pad_signature_data_none(data, placeholder_len) == data

\* A faulty variant of pad_signature_data: the padding is not NUL.
pad_signature_data_ones(data, placeholder_len) ==
    data \o [i \in 1..(placeholder_len - Len(data)) |-> 1]

\* Ordering::Equal and Ordering::Less: signature_data after the match.
pad_signature_data(data, placeholder_len) ==
    IF Len(data) = placeholder_len THEN data
    ELSE data \o Zeros(placeholder_len - Len(data))

\* The SuperBlob over the intermediate Mach-O, compared with the
\* placeholder and padded.
Pass2 ==
    /\ pc = "pass2"
    /\ \E cms \in CmsOutcomes :
         \E sb \in {create_superblob(slice_settings(index),
                                     ParseMachO(intermediate_macho_data),
                                     slice_signature(index).signature, cms)} :
             IF sb.kind = "Err"
             THEN /\ pc' = "failed" /\ result' = sb.err
                  /\ last_code_directory' = sb.code_directory
                  /\ last_blobs' = <<>>
                  /\ UNCHANGED <<superblob, signature_data>>
                  /\ cms_calls' = [cms_calls EXCEPT ![index + 1] =
                                      [cms |-> @.cms + sb.cms_calls.cms,
                                       time_stamp |-> @.time_stamp
                                                      + sb.cms_calls.time_stamp]]
             ELSE IF signature_too_large(Len(sb.data), Len(placeholder_signature))
             THEN /\ pc' = "failed" /\ result' = "SignatureDataTooLarge"
                  /\ superblob' = sb.data
                  /\ last_code_directory' = sb.code_directory
                  /\ last_blobs' = sb.blobs
                  /\ UNCHANGED signature_data
                  /\ cms_calls' = [cms_calls EXCEPT ![index + 1] =
                                      [cms |-> @.cms + sb.cms_calls.cms,
                                       time_stamp |-> @.time_stamp
                                                      + sb.cms_calls.time_stamp]]
             ELSE /\ pc' = "final" /\ result' = result
                  /\ superblob' = sb.data
                  /\ last_code_directory' = sb.code_directory
                  /\ last_blobs' = sb.blobs
                  /\ signature_data' =
                        pad_signature_data(sb.data, Len(placeholder_signature))
                  /\ cms_calls' = [cms_calls EXCEPT ![index + 1] =
                                      [cms |-> @.cms + sb.cms_calls.cms,
                                       time_stamp |-> @.time_stamp
                                                      + sb.cms_calls.time_stamp]]
    /\ UNCHANGED <<input, settings, index, placeholder_signature_len,
                   placeholder_signature, intermediate_macho_data, binaries, writer,
                   descent_vars, scope_vars, limit, limits, current_offset, pad_bytes>>

\* A faulty variant of Final: a streaming writer, each slice is written as
\* soon as it is signed.
Final_streaming ==
    /\ pc = "final"
    /\ \E r \in {create_macho_with_signature(intermediate_macho_data,
                                              ParseMachO(intermediate_macho_data),
                                              signature_data)} :
           IF r.kind # "Ok"
           THEN /\ pc' = "failed" /\ result' = r.err
                /\ UNCHANGED <<binaries, index, writer>>
           ELSE /\ binaries' = Append(binaries, r.data)
                /\ writer' = writer \o r.data
                /\ index' = index + 1
                /\ pc' = IF index + 1 < NumSlices THEN "pass1" ELSE "assemble"
                /\ result' = result
    /\ UNCHANGED <<input, settings, locals, descent_vars, scope_vars, limit, limits, current_offset, pad_bytes, cms_calls, superblob_vars>>

\* The second call of the rewriter; the slice's closure returns.
Final ==
    /\ pc = "final"
    /\ \E r \in {create_macho_with_signature(intermediate_macho_data,
                                              ParseMachO(intermediate_macho_data),
                                              signature_data)} :
           IF r.kind = "Panic"
           THEN /\ pc' = "panicked" /\ result' = "Panic"
                /\ UNCHANGED <<binaries, index>>
           ELSE IF r.kind = "Err"
           THEN /\ pc' = "failed" /\ result' = r.err
                /\ UNCHANGED <<binaries, index>>
           ELSE /\ binaries' = Append(binaries, r.data)
                /\ index' = index + 1
                /\ pc' = IF index + 1 < NumSlices THEN "pass1" ELSE "assemble"
                /\ result' = result
    /\ UNCHANGED <<input, settings, locals, writer, descent_vars, scope_vars, limit, limits, current_offset, pad_bytes, cms_calls, superblob_vars>>

\* Mach::Binary: the one signed Mach-O is written.
WriteThin ==
    /\ pc = "assemble"
    /\ ~input.fat
    /\ writer' = writer \o binaries[1]
    /\ pc' = "done"
    /\ result' = "Ok"
    /\ UNCHANGED <<input, settings, index, locals, binaries, descent_vars, scope_vars, limit, limits, current_offset, pad_bytes, cms_calls, superblob_vars>>

\* The fat header is written byte by byte: a u32 is four cells, big-endian.
BE32(v) == <<(v \div 16777216) % 256, (v \div 65536) % 256, (v \div 256) % 256, v % 256>>

\* 0xcafebabe, big-endian.
FAT_MAGIC_BE == <<202, 254, 186, 190>>

FAT_ALIGN == 4096

\* The offset of the end of slice k's payload (k = 0: of the header block),
\* as the loop over the arches accumulates current_offset.
\* A faulty variant of pad_bytes_of: payloads follow each other unpadded.
pad_bytes_of_none(offset) == 0

\* pad_bytes of the loop over the arches, for the running offset `offset`.
pad_bytes_of(offset) == FAT_ALIGN - (offset % FAT_ALIGN)

RECURSIVE current_offset_after(_, _)
current_offset_after(bins, k) ==
    IF k = 0 THEN SIZEOF_FAT_HEADER + SIZEOF_FAT_ARCH * Len(bins)
    ELSE LET before == current_offset_after(bins, k - 1)
         IN  before + Len(bins[k]) + pad_bytes_of(before)

\* write_instructions[k]: the arch record, the padding, the payload.
write_instruction(bins, arches, k) ==
    [arch |-> [arches[k] EXCEPT
                  !.offset = current_offset_after(bins, k - 1)
                             + pad_bytes_of(current_offset_after(bins, k - 1)),
                  !.size = Len(bins[k])],
     pad_bytes |-> pad_bytes_of(current_offset_after(bins, k - 1)),
     macho_data |-> bins[k]]

fat_arch_bytes(arch) ==
    BE32(arch.cputype) \o BE32(arch.cpusubtype) \o BE32(arch.offset)
    \o BE32(arch.size) \o BE32(arch.align)

fat_binary_bytes(bins, arches) ==
    LET instr == [k \in 1..Len(bins) |-> write_instruction(bins, arches, k)]
    IN  FAT_MAGIC_BE \o BE32(Len(arches))
        \o Concat([k \in 1..Len(bins) |-> fat_arch_bytes(instr[k].arch)])
        \o Concat([k \in 1..Len(bins) |->
                      Zeros(instr[k].pad_bytes) \o instr[k].macho_data])

\* Mach::Fat: header, arch records, then each padded payload.
WriteFat ==
    /\ pc = "assemble"
    /\ input.fat
    /\ writer' = writer \o fat_binary_bytes(binaries, input.arches)
    /\ pc' = "done"
    /\ result' = "Ok"
    /\ UNCHANGED <<input, settings, index, locals, binaries, descent_vars, scope_vars, limit, limits, current_offset, pad_bytes, cms_calls, superblob_vars>>

Next ==
    \/ New
    \/ Pass1
    \/ Intermediate
    \/ Pass2
    \/ Final
    \/ WriteThin
    \/ WriteFat

Spec == Init /\ [][Next]_vars

-----------------------------------------------------------------------------
(* The settings descent: a caller signing a bundle derives the settings of *)
(* nested bundles, of the bundle's Mach-O files and of their slices.       *)

\* Paths of the scopes and of the descents: "a", "ab", "a/b", "b".
PathA == <<97>>

PathAB == <<97, 98>>

PathASlashB == <<97, SLASH, 98>>

PathB == <<98>>

\* The scopes the caller's settings may use, in a fixed order.
ScopeUniverse ==
    <<Main,
      Path(PathA), Path(PathAB), Path(PathASlashB), Path(PathB),
      MultiArchIndex(0), MultiArchIndex(1),
      MultiArchCpuType(CPU_TYPE_X86_64), MultiArchCpuType(CPU_TYPE_ARM64),
      PathMultiArchIndex(PathA, 0), PathMultiArchIndex(PathASlashB, 0),
      PathMultiArchCpuType(PathA, CPU_TYPE_X86_64),
      PathMultiArchCpuType(PathASlashB, CPU_TYPE_X86_64)>>

\* The position of a scope in ScopeUniverse.
ScopeNumber(scope) == CHOOSE n \in 1..Len(ScopeUniverse) : ScopeUniverse[n] = scope

\* The flags that spell the number n in binary.
FlagsOfNumber(n) ==
    {f \in {"FORCE_HARD", "RESTRICT", "RUNTIME", "LINKER_SIGNED"} :
        (n \div (CASE f = "FORCE_HARD" -> 1
                   [] f = "RESTRICT" -> 2
                   [] f = "RUNTIME" -> 4
                   [] f = "LINKER_SIGNED" -> 8)) % 2 = 1}

\* The value set_<field>(scope, ...) has stored: one per field and scope.
ScopedValue(field, scope) ==
    CASE field = "identifiers" -> <<105, ScopeNumber(scope)>>
      [] field = "entitlements" -> <<101, ScopeNumber(scope)>>
      [] field = "designated_requirement" -> <<<<114, ScopeNumber(scope)>>>>
      [] field = "code_signature_flags" -> FlagsOfNumber(ScopeNumber(scope))
      [] field = "executable_segment_flags" -> {"MAIN_BINARY"} \cup FlagsOfNumber(ScopeNumber(scope))
      [] field = "info_plist_data" -> <<112, ScopeNumber(scope)>>
      [] field = "code_resources_data" -> <<99, ScopeNumber(scope)>>

\* The most scopes the caller's settings use.
MaxEntries == 3

\* The most descents into nested bundles.
MaxDepth == 2

\* Settings with every scoped field set for the scopes of `scopes`.
SettingsOver(scopes) ==
    [signing_key |-> <<>>,
     certificates |-> <<>>,
     time_stamp_url |-> <<>>,
     team_name |-> <<>>,
     digest_type |-> "Sha256",
     identifiers |-> [k \in scopes |-> ScopedValue("identifiers", k)],
     entitlements |-> [k \in scopes |-> ScopedValue("entitlements", k)],
     designated_requirement |-> [k \in scopes |-> ScopedValue("designated_requirement", k)],
     code_signature_flags |-> [k \in scopes |-> ScopedValue("code_signature_flags", k)],
     executable_segment_flags |->
         [k \in scopes |-> ScopedValue("executable_segment_flags", k)],
     info_plist_data |-> [k \in scopes |-> ScopedValue("info_plist_data", k)],
     code_resources_data |-> [k \in scopes |-> ScopedValue("code_resources_data", k)]]

\* The global settings of the caller: none set, or all of them set.
GlobalChoices ==
    {[signing_key |-> <<>>, certificates |-> <<>>, time_stamp_url |-> <<>>,
      team_name |-> <<>>, digest_type |-> "Sha256"],
     [signing_key |-> KEY, certificates |-> <<"intermediate", "root">>,
      time_stamp_url |-> <<"url">>, team_name |-> <<<<84>>>>, digest_type |-> "Sha1"]}

CallerSettings ==
    {[SettingsOver(scopes) EXCEPT !.signing_key = g.signing_key,
                                  !.certificates = g.certificates,
                                  !.time_stamp_url = g.time_stamp_url,
                                  !.team_name = g.team_name,
                                  !.digest_type = g.digest_type] :
        scopes \in {s \in SUBSET {ScopeUniverse[n] : n \in 1..Len(ScopeUniverse)} :
                       Cardinality(s) <= MaxEntries},
        g \in GlobalChoices}

\* The paths the caller descends into.
DescentPaths == {PathA, PathB}

\* The slices of the caller's fat binaries: (index, CPU type).
DescentSlices ==
    {[index |-> 0, cpu_type |-> CPU_TYPE_X86_64], [index |-> 1, cpu_type |-> CPU_TYPE_ARM64]}

InitSettings ==
    /\ settings \in CallerSettings
    /\ parent = settings
    /\ descent = NoDescent
    /\ input = ThinInput(CoreLayout(TRUE, TRUE, CPU_TYPE_X86_64), [code_directory |-> <<>>])
    /\ pc = "new"
    /\ index = 0
    /\ placeholder_signature_len = 0
    /\ placeholder_signature = <<>>
    /\ intermediate_macho_data = <<>>
    /\ superblob = <<>>
    /\ signature_data = <<>>
    /\ last_code_directory = <<>>
    /\ last_blobs = <<>>
    /\ binaries = <<>>
    /\ writer = <<>>
    /\ result = ""
    /\ scope_form = ScopeForm("path", <<>>, <<>>, <<>>, NoScope)
    /\ scope_text = <<>>
    /\ scope_result = NotParsed
    /\ limit = Usize(0)
    /\ limits = <<>>
    /\ current_offset = SIZEOF_FAT_HEADER + SIZEOF_FAT_ARCH
    /\ pad_bytes = <<>>
    /\ cms_calls = <<>>

signer_vars ==
    <<input, pc, index, locals, superblob_vars, binaries, writer, result, cms_calls>>

\* Main -> Slice(i, c), BundleMacho(path) -> Slice(i, c)
AsNestedMachoSettings ==
    /\ descent.op \in {"none", "nested_bundle", "bundle_macho"}
    /\ \E slice \in DescentSlices :
          /\ settings' = as_nested_macho_settings(settings, slice.index, slice.cpu_type)
          /\ descent' = [op |-> "nested_macho", path |-> <<>>, index |-> slice.index,
                         cpu_type |-> slice.cpu_type, depth |-> descent.depth]
    /\ parent' = settings
    /\ UNCHANGED <<signer_vars, scope_vars, limit, limits, current_offset, pad_bytes>>

\* Main -> BundleMacho(path)
AsBundleMachoSettings ==
    /\ descent.op \in {"none", "nested_bundle"}
    /\ \E path \in DescentPaths :
          /\ settings' = as_bundle_macho_settings(settings, path)
          /\ descent' = [op |-> "bundle_macho", path |-> path, index |-> 0,
                         cpu_type |-> 0, depth |-> descent.depth]
    /\ parent' = settings
    /\ UNCHANGED <<signer_vars, scope_vars, limit, limits, current_offset, pad_bytes>>

\* Main -> NestedBundle(path) -> (repeat)
AsNestedBundleSettings ==
    /\ descent.op \in {"none", "nested_bundle"}
    /\ descent.depth < MaxDepth
    /\ \E bundle_path \in DescentPaths :
          /\ settings' = as_nested_bundle_settings(settings, bundle_path)
          /\ descent' = [op |-> "nested_bundle", path |-> bundle_path, index |-> 0,
                         cpu_type |-> 0, depth |-> descent.depth + 1]
    /\ parent' = settings
    /\ UNCHANGED <<signer_vars, scope_vars, limit, limits, current_offset, pad_bytes>>

NextSettings ==
    \/ AsNestedMachoSettings
    \/ AsBundleMachoSettings
    \/ AsNestedBundleSettings

SpecSettings == InitSettings /\ [][NextSettings]_vars

-----------------------------------------------------------------------------
(* Scope strings: the strings a caller gives to SettingsScope::try_from,   *)
(* and the strings Display writes.                                         *)

\* The most digits of an integer of a scope string.
MaxDigits == 2

\* The integers of the scope strings, as digit strings ('0', '4', '7').
ScopeNumbers == UNION {[1..n -> {CHAR_0, CHAR_0 + 4, CHAR_0 + 7}] : n \in 1..MaxDigits}

\* The recognized cpu_type string values and their CPU types.
RecognizedCpuNames ==
    {[name |-> <<97, 114, 109>>, cpu_type |-> CPU_TYPE_ARM],
     [name |-> <<97, 114, 109, 54, 52>>, cpu_type |-> CPU_TYPE_ARM64],
     [name |-> <<97, 114, 109, 54, 52, 95, 51, 50>>,
      cpu_type |-> CPU_TYPE_ARM64_32],
     [name |-> <<120, 56, 54, 95, 54, 52>>, cpu_type |-> CPU_TYPE_X86_64]}

\* The paths of the scope strings: "a", "a/b" and "a@b".
ScopePaths == {PathA, PathASlashB, PathA \o <<CHAR_AT>> \o PathB}

\* Strings of no documented form.
OtherTexts ==
    {<<64>>,                                    \* "@"
     <<64, 120>>,                               \* "@x"
     <<64, 43, 55>>,                               \* "@+7"
     <<64, 45, 55>>,                               \* "@-7"
     <<97, 64>>,                               \* "a@"
     <<97, 64, 120>>,                           \* "a@x"
     <<97, 64, 98, 64, 120>>,
                                              \* "a@b@x"
     <<97, 64, 48, 64, 120>>,
                                              \* "a@0@x"
     <<97, 64, 120, 64, 48>>,
                                              \* "a@x@0"
     <<97, 64, 43, 55>>,
                                              \* "a@+7"
     <<97, 64, 45, 55>>,
                                              \* "a@-7"
     <<97, 64, 91, 99, 112, 117, 61, 55, 93>>,
                                              \* "a@[cpu=7]"
     <<97, 64, 91, 99, 112, 117, 95, 116, 121, 112, 101, 61, 97, 114, 109, 118, 55, 93>>,
                                              \* "a@[cpu_type=armv7]"
     <<97, 64, 98, 64, 91, 99, 112, 117, 95, 116, 121, 112, 101, 61, 97, 114, 109, 54, 52>>,
                                              \* "a@b@[cpu_type=arm64"
     <<97, 32, 98, 64, 109, 97, 105, 110>>,
                                              \* "a b@main"
     <<64, 109, 97, 105, 110, 64, 48>>,                   \* "@main@0"
     <<64, 91, 93>>,                           \* "@[]"
     <<64, 91, 99, 112, 117, 61, 55, 93>>,       \* "@[cpu=7]"
     <<64, 91, 99, 112, 117, 95, 116, 121, 112, 101, 93>>,
                                              \* "@[cpu_type]"
     <<64, 91, 99, 112, 117, 95, 116, 121, 112, 101, 61, 93>>,
                                              \* "@[cpu_type=]"
     <<64, 91, 99, 112, 117, 95, 116, 121, 112, 101, 61, 55, 61, 52, 93>>,
                                              \* "@[cpu_type=7=4]"
     <<64, 91, 99, 112, 117, 95, 116, 121, 112, 101, 61, 97, 114, 109, 118, 55, 93>>,
                                              \* "@[cpu_type=armv7]"
     <<64, 57, 57, 57, 57, 57, 57, 57, 57, 57, 57, 57, 57, 57, 57, 57, 57, 57, 57, 57, 57, 57,
       57, 57>>,
                                              \* "@99999999999999999999999"
     <<64, 91, 99, 112, 117, 95, 116, 121, 112, 101, 61, 57, 57, 57, 57, 57, 57, 57, 57, 57,
       57, 57, 93>>}
                                              \* "@[cpu_type=99999999999]"

ScopeForms ==
    {ScopeForm("main", <<>>, <<>>, <<>>, NoScope)}
    \cup {ScopeForm("index", <<>>, number, <<>>, NoScope) : number \in ScopeNumbers}
    \cup {ScopeForm("cpu_int", <<>>, number, <<>>, NoScope) : number \in ScopeNumbers}
    \cup {ScopeForm("cpu_name", <<>>, <<>>, cpu.name, NoScope) : cpu \in RecognizedCpuNames}
    \cup {ScopeForm("path", path, <<>>, <<>>, NoScope) : path \in ScopePaths \cup {<<>>}}
    \cup {ScopeForm("path_index", path, number, <<>>, NoScope) :
            path \in ScopePaths, number \in ScopeNumbers}
    \cup {ScopeForm("path_cpu_int", path, number, <<>>, NoScope) :
            path \in ScopePaths, number \in ScopeNumbers}
    \cup {ScopeForm("path_cpu_name", path, <<>>, cpu.name, NoScope) :
            path \in ScopePaths, cpu \in RecognizedCpuNames}
    \cup {ScopeForm("other", text, <<>>, <<>>, NoScope) : text \in OtherTexts}

\* The string of a form, written as the documentation of SettingsScope says;
\* CpuType(value) is "[cpu_type=" value "]".
TextOf(form) ==
    LET CpuType(value) ==
            <<91, 99, 112, 117, 95, 116, 121, 112, 101, 61>> \o value \o <<CHAR_RBRACKET>>
    IN
    CASE form.form = "main" -> <<64, 109, 97, 105, 110>>
      [] form.form = "index" -> <<CHAR_AT>> \o form.number
      [] form.form = "cpu_int" -> <<CHAR_AT>> \o CpuType(form.number)
      [] form.form = "cpu_name" -> <<CHAR_AT>> \o CpuType(form.name)
      [] form.form = "path" -> form.path
      [] form.form = "path_index" -> form.path \o <<CHAR_AT>> \o form.number
      [] form.form = "path_cpu_int" -> form.path \o <<CHAR_AT>> \o CpuType(form.number)
      [] form.form = "path_cpu_name" -> form.path \o <<CHAR_AT>> \o CpuType(form.name)
      [] form.form = "other" -> form.path

InitScope ==
    /\ scope_form \in ScopeForms
    /\ scope_text = TextOf(scope_form)
    /\ scope_result = NotParsed
    /\ limit = Usize(0)
    /\ limits = <<>>
    /\ current_offset = SIZEOF_FAT_HEADER + SIZEOF_FAT_ARCH
    /\ pad_bytes = <<>>
    /\ cms_calls = <<>>
    /\ settings = DefaultSettings
    /\ parent = DefaultSettings
    /\ descent = NoDescent
    /\ input = ThinInput(CoreLayout(TRUE, TRUE, CPU_TYPE_X86_64), [code_directory |-> <<>>])
    /\ pc = "new"
    /\ index = 0
    /\ placeholder_signature_len = 0
    /\ placeholder_signature = <<>>
    /\ intermediate_macho_data = <<>>
    /\ superblob = <<>>
    /\ signature_data = <<>>
    /\ last_code_directory = <<>>
    /\ last_blobs = <<>>
    /\ binaries = <<>>
    /\ writer = <<>>
    /\ result = ""

\* SettingsScope::try_from(scope_text)
TryFrom ==
    /\ scope_result = NotParsed
    /\ scope_result' = try_from(scope_text)
    /\ UNCHANGED <<scope_form, scope_text, signer_vars, settings, descent_vars, limit, limits, current_offset, pad_bytes>>

\* scope.to_string() of the scope try_from returned for the caller's string.
Fmt ==
    /\ scope_result.kind = "Ok"
    /\ scope_form.form # "display"
    /\ scope_form' = ScopeForm("display", <<>>, <<>>, <<>>, scope_result.scope)
    /\ scope_text' = fmt(scope_result.scope)
    /\ scope_result' = NotParsed
    /\ UNCHANGED <<signer_vars, settings, descent_vars, limit, limits, current_offset, pad_bytes>>

NextScope ==
    \/ TryFrom
    \/ Fmt

SpecScope == InitScope /\ [][NextScope]_vars

-----------------------------------------------------------------------------
(* create_code_directory called on its own: on Mach-O files with and       *)
(* without signature and __LINKEDIT, under every digest type; the split of *)
(* a code limit into code_limit and code_limit_64; and the padding the fat *)
(* writer computes for a running offset.                                   *)

\* Mach-O files: signed; without signature; without signature and without
\* __LINKEDIT, the last segment being the segment in its place or __DATA;
\* with a signature but without __LINKEDIT.
CodeDirectoryLayouts ==
    LET unsigned == Layout(TRUE, TRUE, 0, 1, 1, 0, FALSE, "no_signature", CPU_TYPE_X86_64)
    IN  {CoreLayout(TRUE, TRUE, CPU_TYPE_X86_64),
         unsigned,
         [unsigned EXCEPT !.linkedit_name = SEG_TEXT],
         [unsigned EXCEPT !.linkedit_name = SEG_TEXT, !.linkedit_last = FALSE],
         [CoreLayout(TRUE, TRUE, CPU_TYPE_X86_64) EXCEPT !.linkedit_name = SEG_TEXT]}

CodeDirectorySettings ==
    {[DefaultSettings EXCEPT !.digest_type = digest_type,
                             !.identifiers = MapInsert(EmptyMap, Main, <<105>>),
                             !.executable_segment_flags = exec,
                             !.team_name = team] :
        digest_type \in {"Sha1", "Sha256", "Sha256Truncated", "Sha384", "Sha512"},
        exec \in {EmptyMap, MapInsert(EmptyMap, Main, {})},
        team \in {<<>>, <<<<85>>>>}}

\* The arguments of create_code_directory; or a usize limit, of four limbs
\* out of 0, 1 and 0xffff; or a running offset of the fat writer, the end of
\* a header block or the end of a payload about a 4 KiB boundary.
InitCodeDirectory ==
    /\ \/ /\ input \in {ThinInput(layout, previous) :
                          layout \in CodeDirectoryLayouts, previous \in PrevSignatures}
          /\ settings \in CodeDirectorySettings
          /\ limit = Usize(0)
          /\ current_offset = SIZEOF_FAT_HEADER + SIZEOF_FAT_ARCH
       \/ /\ input = ThinInput(CoreLayout(TRUE, TRUE, CPU_TYPE_X86_64),
                                [code_directory |-> <<>>])
          /\ settings = PlainSettings
          /\ \/ /\ limit \in [1..4 -> {0, 1, LIMB - 1}]
                /\ current_offset = SIZEOF_FAT_HEADER + SIZEOF_FAT_ARCH
             \/ /\ limit = Usize(0)
                /\ current_offset \in
                      {SIZEOF_FAT_HEADER + SIZEOF_FAT_ARCH * n : n \in 1..3}
                      \cup {FAT_ALIGN * k + d : k \in 1..3, d \in {0, 1, FAT_ALIGN - 1}}
    /\ limits = <<>>
    /\ pad_bytes = <<>>
    /\ cms_calls = <<>>
    /\ pc = "new"
    /\ index = 0
    /\ placeholder_signature_len = 0
    /\ placeholder_signature = <<>>
    /\ intermediate_macho_data = <<>>
    /\ superblob = <<>>
    /\ signature_data = <<>>
    /\ last_code_directory = <<>>
    /\ last_blobs = <<>>
    /\ binaries = <<>>
    /\ writer = <<>>
    /\ result = ""
    /\ parent = DefaultSettings
    /\ descent = NoDescent
    /\ scope_form = ScopeForm("path", <<>>, <<>>, <<>>, NoScope)
    /\ scope_text = <<>>
    /\ scope_result = NotParsed

\* create_code_directory(settings, macho, signature) for the input file and
\* what its old signature parses to.
CreateCodeDirectory ==
    /\ pc = "new"
    /\ slice_signature(0).kind = "Ok"
    /\ \E r \in {create_code_directory(settings, Machos(0), slice_signature(0).signature)} :
          /\ last_code_directory' = IF r.kind = "Ok" THEN <<r.cd>> ELSE <<>>
          /\ result' = IF r.kind = "Ok" THEN "Ok" ELSE r.err
    /\ pc' = "done"
    /\ UNCHANGED <<input, settings, index, locals, last_blobs, binaries, writer,
                   descent_vars, scope_vars, limit, limits, current_offset, pad_bytes, cms_calls>>

\* The match of create_code_directory on a limit.
CodeLimits ==
    /\ limits = <<>>
    /\ limits' = <<code_limits(limit)>>
    /\ UNCHANGED <<limit, current_offset, pad_bytes, signer_vars, settings, descent_vars,
                   scope_vars>>

\* One round of the loop over the arches: pad_bytes for current_offset.
PadBytes ==
    /\ pad_bytes = <<>>
    /\ pad_bytes' = <<pad_bytes_of(current_offset)>>
    /\ UNCHANGED <<limit, limits, current_offset, signer_vars, settings, descent_vars,
                   scope_vars>>

NextCodeDirectory ==
    \/ CreateCodeDirectory
    \/ CodeLimits
    \/ PadBytes

SpecCodeDirectory == InitCodeDirectory /\ [][NextCodeDirectory]_vars

-----------------------------------------------------------------------------
(* Properties of the signer.                                               *)

\* The slice the closure's locals belong to: the one being signed, or the
\* one just signed when the closure has returned.
LocalsSlice == IF pc \in {"pass1", "assemble", "done"} THEN index - 1 ELSE index

\* The closure has returned the signed slice LocalsSlice and its locals are
\* still those of that slice.
SliceSigned == pc \in {"pass1", "assemble", "done"} /\ index > 0

CodeSignatureCommand(macho) ==
    macho.load_commands[FirstCodeSignature(macho.load_commands)]

IsLinkeditCommand(lc) ==
    lc.cmd \in {LC_SEGMENT, LC_SEGMENT_64} /\ lc.command[SEG_NAME] = SEG_LINKEDIT

LinkeditCommand(macho) ==
    macho.load_commands[CHOOSE i \in 1..Len(macho.load_commands) :
                            IsLinkeditCommand(macho.load_commands[i])]

\* emitted equals original at every offset below the signature start but the
\* datasize field of the code-signature command and the filesize field of
\* the __LINKEDIT segment command.
LayoutPreserved(original, emitted) ==
    LET macho == ParseMachO(original)
        dataoff == CodeSignatureCommand(macho).command[CS_DATAOFF]
        exempt == {CodeSignatureCommand(macho).offset + CS_DATASIZE,
                   LinkeditCommand(macho).offset + SEG_FILESIZE}
    IN  /\ Len(emitted) >= dataoff
        /\ \A o \in 1..dataoff : o \notin exempt => emitted[o] = original[o]

\* C1: every signed slice equals its input below the signature start, but
\* for the datasize field of the code-signature command and the filesize
\* field of the __LINKEDIT segment command.
C1_LayoutPreservation ==
    \A k \in 1..Len(binaries) : LayoutPreserved(input.slices[k].data, binaries[k])

C1_Witness ==
    /\ pc = "done"
    /\ Len(binaries) >= 2
    /\ \A k \in 1..Len(binaries) :
          /\ binaries[k] # input.slices[k].data
          /\ Len(ParseMachO(input.slices[k].data).segments) >= 3

\* C2: once a slice is signed, the final Mach-O equals the intermediate
\* Mach-O on [0, code_limit), and code_limit is the same for the original,
\* the intermediate and the final Mach-O.
C2_CrossPassConsistency ==
    SliceSigned =>
        LET code_end == code_limit_of(ParseMachO(intermediate_macho_data))
        IN  /\ Slice(binaries[index], 0, code_end) = Slice(intermediate_macho_data, 0, code_end)
            /\ code_limit_of(Machos(index - 1)) = code_end
            /\ code_limit_of(ParseMachO(binaries[index])) = code_end
            /\ compute_code_hashes(ParseMachO(binaries[index]), settings.digest_type)
                  = compute_code_hashes(ParseMachO(intermediate_macho_data),
                                        settings.digest_type)

C2_Witness ==
    /\ SliceSigned
    /\ settings.signing_key # <<>>
    /\ Len(superblob) < Len(signature_data)
    /\ binaries[index] # intermediate_macho_data

\* The cells of data from offset `from` on are all zero.
ZeroFrom(data, from) == \A o \in (from + 1)..Len(data) : data[o] = 0

\* C3: the signature handed to the second rewriter call is L + 1024 long, L
\* the length of the pass-1 SuperBlob; it starts with the pass-2 SuperBlob
\* and is zero after it; the final Mach-O's signature region is this
\* signature and its datasize is L + 1024.
C3_PlaceholderStability ==
    /\ signature_data # <<>> =>
          /\ Len(signature_data) = placeholder_signature_len + 1024
          /\ superblob # <<>>
          /\ superblob[1] = MagicEmbeddedSignature
          /\ Slice(signature_data, 0, Len(superblob)) = superblob
          /\ ZeroFrom(signature_data, Len(superblob))
          /\ settings.signing_key = <<>> =>
                placeholder_signature_len =
                    Len(create_superblob(slice_settings(LocalsSlice), Machos(LocalsSlice),
                                         slice_signature(LocalsSlice).signature,
                                         [kind |-> "Ok", extra |-> 0]).data)
    /\ SliceSigned =>
          LET final == ParseMachO(binaries[index])
              region == find_signature_data(final)
          IN  /\ CodeSignatureCommand(final).command[CS_DATASIZE]
                    = placeholder_signature_len + 1024
              /\ region.kind = "Some"
              /\ region.signature_data = signature_data

C3_Witness ==
    /\ SliceSigned
    /\ Len(superblob) < Len(signature_data)
    /\ Len(superblob) > placeholder_signature_len

\* C4: a pass-2 SuperBlob longer than the placeholder fails with
\* SignatureDataTooLarge; one that is not longer is not rejected and is
\* padded with zeros to the placeholder's length, unchanged when equal.
C4_SizingError ==
    superblob # <<>> =>
        IF Len(superblob) > Len(placeholder_signature)
        THEN pc = "failed" /\ result = "SignatureDataTooLarge"
        ELSE /\ result # "SignatureDataTooLarge"
             /\ pc # "failed"
             /\ Len(signature_data) = Len(placeholder_signature)
             /\ Slice(signature_data, 0, Len(superblob)) = superblob
             /\ ZeroFrom(signature_data, Len(superblob))
             /\ Len(superblob) = Len(placeholder_signature) => signature_data = superblob

C4_Witness ==
    /\ superblob # <<>>
    /\ Len(superblob) = Len(placeholder_signature)
    /\ pc = "final"

C4_WitnessTooLarge ==
    /\ superblob # <<>>
    /\ Len(superblob) > Len(placeholder_signature)
    /\ result = "SignatureDataTooLarge"

\* The cells of the writer a fat output gives to slice k: the last
\* Len(binaries[k]) cells before the next slice's padding.
WrittenSlice(k) ==
    LET offset == current_offset_after(binaries, k) - Len(binaries[k])
    IN  Slice(writer, offset, offset + Len(binaries[k]))

\* C5: nothing is written before every slice is signed; a failure leaves the
\* writer empty and reports the first failing slice's error; what is written
\* is the signed slices, never the intermediate Mach-O.
C5_NoPartialOutput ==
    /\ pc # "done" => writer = <<>>
    /\ pc = "failed" =>
          /\ result \notin {"", "Ok"}
          /\ IF FirstUnsignable # 0
             THEN /\ result = check_signing_capability(Machos(FirstUnsignable - 1))
                  /\ binaries = <<>>
             ELSE /\ Len(binaries) = index
                  /\ index < NumSlices
    /\ pc = "done" =>
          /\ Len(binaries) = NumSlices
          /\ binaries[NumSlices] # intermediate_macho_data
          /\ IF input.fat
             THEN \A k \in 1..NumSlices : WrittenSlice(k) = binaries[k]
             ELSE writer = binaries[1]

C5_Witness ==
    /\ pc = "failed"
    /\ index = 1
    /\ Len(binaries) = 1
    /\ writer = <<>>

\* The decision function over the Mach-O as parsed.
CapabilityDecision(macho) ==
    LET linkedit_index == FirstLinkedit(macho.segments)
        linkedit == macho.segments[linkedit_index]
        command == CodeSignatureCommand(macho).command
        signature_end_offset ==
            command[CS_DATAOFF] - linkedit.fileoff + command[CS_DATASIZE]
    IN  IF ~\E i \in 1..Len(macho.load_commands) : IsCodeSignature(macho.load_commands[i])
        THEN "BinaryNoCodeSignature"
        ELSE IF linkedit_index # Len(macho.segments) THEN "LinkeditNotLast"
        ELSE IF signature_end_offset # Len(linkedit.data) THEN "DataAfterSignature"
        ELSE "Ok"

\* The Mach-O has __LINKEDIT misplaced and data after the signature.
MisplacedAndTrailing(macho) ==
    LET linkedit_index == FirstLinkedit(macho.segments)
        linkedit == macho.segments[linkedit_index]
        command == CodeSignatureCommand(macho).command
    IN  /\ \E i \in 1..Len(macho.load_commands) : IsCodeSignature(macho.load_commands[i])
        /\ linkedit_index # Len(macho.segments)
        /\ command[CS_DATAOFF] - linkedit.fileoff + command[CS_DATASIZE]
              # Len(linkedit.data)

\* C6: check_signing_capability is BinaryNoCodeSignature without a
\* code-signature command, else LinkeditNotLast when __LINKEDIT is not the
\* last segment, else DataAfterSignature when the signature does not end
\* where __LINKEDIT's data ends, else ok; MachOSigner::new fails with it.
C6_CapabilityDecision ==
    /\ \A k \in 1..NumSlices :
          check_signing_capability(Machos(k - 1)) = CapabilityDecision(Machos(k - 1))
    /\ pc # "new" =>
          IF \A k \in 1..NumSlices : CapabilityDecision(Machos(k - 1)) = "Ok"
          THEN result \notin {"BinaryNoCodeSignature", "LinkeditNotLast",
                              "DataAfterSignature"}
          ELSE /\ pc = "failed"
               /\ \E k \in 1..NumSlices :
                     /\ result = CapabilityDecision(Machos(k - 1))
                     /\ result # "Ok"
                     /\ \A j \in 1..(k - 1) : CapabilityDecision(Machos(j - 1)) = "Ok"

C6_Witness ==
    /\ pc = "failed"
    /\ result = "LinkeditNotLast"
    /\ MisplacedAndTrailing(Machos(0))

\* The sum of the cmdsize fields.
RECURSIVE SumCmdsize(_)
SumCmdsize(cmds) ==
    IF cmds = <<>> THEN 0 ELSE Head(cmds).cmdsize + SumCmdsize(Tail(cmds))

\* out is data with the signature sig as C7 states it.
RewriterFields(data, sig, out) ==
    LET macho == ParseMachO(data)
        hsize == Len(macho.header)
        start == CodeSignatureCommand(macho).command[CS_DATAOFF]
                 - LinkeditCommand(macho).command[SEG_FILEOFF]
    IN  /\ Len(out) >= hsize + SumCmdsize(macho.load_commands)
        /\ Slice(out, 0, hsize) = macho.header
        /\ SumCmdsize(ParseMachO(out).load_commands) = SumCmdsize(macho.load_commands)
        /\ \A i \in 1..Len(macho.load_commands) :
              LET lc == macho.load_commands[i]
                  original == Slice(data, lc.offset, lc.offset + lc.cmdsize)
                  written == Slice(out, lc.offset, lc.offset + lc.cmdsize)
              IN  IF IsCodeSignature(lc)
                  THEN written = [original EXCEPT ![CS_DATASIZE] = Len(sig)]
                  ELSE IF IsLinkeditCommand(lc)
                  THEN written = [original EXCEPT ![SEG_FILESIZE] = start + Len(sig)]
                  ELSE written = original

\* C7: in what create_macho_with_signature returns, datasize is the
\* signature's length and dataoff is unchanged, the __LINKEDIT command's
\* filesize is the signature's start in __LINKEDIT plus its length, every
\* other load command is copied, and the load commands are as long as before.
C7_RewriterSizeFields ==
    /\ intermediate_macho_data # <<>> =>
          RewriterFields(macho_data(LocalsSlice), placeholder_signature,
                         intermediate_macho_data)
    /\ SliceSigned =>
          RewriterFields(intermediate_macho_data, signature_data, binaries[index])

C7_Witness ==
    /\ SliceSigned
    /\ \E k \in 1..NumSlices : input.slices[k].data[1] = MH_MAGIC
    /\ \E k \in 1..NumSlices : input.slices[k].data[1] = MH_MAGIC_64
    /\ Len(signature_data) > Len(superblob)

-----------------------------------------------------------------------------
(* Properties of the settings descent.                                     *)

\* C8's rule for one scoped field: what a slice (index, cpu_type) gets under
\* Main from the parent's map.
SlicePrecedence(map, slice_index, cpu_type) ==
    IF MultiArchCpuType(cpu_type) \in DOMAIN map
    THEN MapInsert(EmptyMap, Main, map[MultiArchCpuType(cpu_type)])
    ELSE IF MultiArchIndex(slice_index) \in DOMAIN map
    THEN MapInsert(EmptyMap, Main, map[MultiArchIndex(slice_index)])
    ELSE IF Main \in DOMAIN map
    THEN MapInsert(EmptyMap, Main, map[Main])
    ELSE EmptyMap

\* C8: for every scoped field, as_nested_macho_settings(i, c) holds under
\* Main the parent's MultiArchCpuType(c) value, else its MultiArchIndex(i)
\* value, else its Main value, else nothing, and holds nothing else.
C8_ScopeMergePrecedence ==
    descent.op = "nested_macho" =>
        \A field \in ScopedFields :
            settings[field] = SlicePrecedence(parent[field], descent.index, descent.cpu_type)

C8_Witness ==
    /\ descent.op = "nested_macho"
    /\ DOMAIN parent.entitlements
          = {Main, MultiArchIndex(descent.index), MultiArchCpuType(descent.cpu_type)}
    /\ settings.entitlements
          = MapInsert(EmptyMap, Main,
                      parent.entitlements[MultiArchCpuType(descent.cpu_type)])

C8_WitnessOthers ==
    /\ descent.op = "nested_macho"
    /\ descent.index = 0
    /\ DOMAIN parent.identifiers
          = {Main, MultiArchIndex(1), MultiArchCpuType(CPU_TYPE_ARM64)}
    /\ settings.identifiers = MapInsert(EmptyMap, Main, parent.identifiers[Main])

IsPathScope(key) ==
    key.variant \in {"Path", "PathMultiArchIndex", "PathMultiArchCpuType"}

\* The path-less scope of the same shape.
Pathless(key) ==
    CASE key.variant = "Path" -> Main
      [] key.variant = "PathMultiArchIndex" -> MultiArchIndex(key.index)
      [] key.variant = "PathMultiArchCpuType" -> MultiArchCpuType(key.cpu_type)

\* The scope of the same variant and qualifier with the path `path`.
WithPath(key, path) == [key EXCEPT !.path = path]

\* C9's mapping of a parent key; NoScope for an entry that is dropped.
BundleMachoMapping(key, path) ==
    IF ~IsPathScope(key) THEN key
    ELSE IF key.path = path THEN Pathless(key)
    ELSE NoScope

\* C10's mapping of a parent key; NoScope for an entry that is dropped.
NestedBundleMapping(key, bundle) ==
    IF ~IsPathScope(key) THEN key
    ELSE IF key.path = bundle THEN Pathless(key)
    ELSE IF StartsWith(key.path, bundle \o <<SLASH>>)
    THEN WithPath(key, SubSeq(key.path, Len(bundle) + 2, Len(key.path)))
    ELSE NoScope

\* C9: as_bundle_macho_settings(path) keeps the path-less keys, turns the
\* keys of `path` into their path-less scopes and drops every entry scoped
\* to another path: the result's keys are the images of the parent's keys,
\* each with the value of a parent entry mapped to it.
C9_BundleMachoMapping ==
    descent.op = "bundle_macho" =>
        \A field \in ScopedFields :
            /\ DOMAIN settings[field]
                  = {BundleMachoMapping(k, descent.path) : k \in DOMAIN parent[field]}
                    \ {NoScope}
            /\ \A key \in DOMAIN settings[field] :
                  \E k \in DOMAIN parent[field] :
                      /\ BundleMachoMapping(k, descent.path) = key
                      /\ settings[field][key] = parent[field][k]

\* C10: as_nested_bundle_settings(bundle) turns the keys of `bundle` into
\* their path-less scopes, strips `bundle/` from the keys below it and
\* drops the keys of other paths: the result's keys are the images of the
\* parent's keys, each with the value of a parent entry mapped to it.
C10_NestedBundleMapping ==
    descent.op = "nested_bundle" =>
        \A field \in ScopedFields :
            /\ DOMAIN settings[field]
                  = {NestedBundleMapping(k, descent.path) : k \in DOMAIN parent[field]}
                    \ {NoScope}
            /\ \A key \in DOMAIN settings[field] :
                  \E k \in DOMAIN parent[field] :
                      /\ NestedBundleMapping(k, descent.path) = key
                      /\ settings[field][key] = parent[field][k]

C10_Witness ==
    /\ descent.op = "nested_bundle"
    /\ descent.path = PathA
    /\ DOMAIN parent.entitlements
          = {Path(PathAB), PathMultiArchIndex(PathASlashB, 0), PathMultiArchCpuType(PathA, CPU_TYPE_X86_64)}
    /\ DOMAIN settings.entitlements
          = {PathMultiArchIndex(PathB, 0), MultiArchCpuType(CPU_TYPE_X86_64)}

\* The order of the scopes C11 states, by variant.
ClaimedRank(variant) ==
    CASE variant = "Main" -> 0
      [] variant = "Path" -> 1
      [] variant = "MultiArchIndex" -> 2
      [] variant = "MultiArchCpuType" -> 3
      [] variant = "PathMultiArchIndex" -> 4
      [] variant = "PathMultiArchCpuType" -> 5

\* The child key the last descent gave the parent key `key`.
DescentKeyMap(key) ==
    CASE descent.op = "nested_macho" ->
            nested_macho_key_map(key, descent.index, descent.cpu_type)
      [] descent.op = "bundle_macho" ->
            strip_prefix_key_map(key, descent.path, macho_prefix(descent.path))
      [] descent.op = "nested_bundle" ->
            strip_prefix_key_map(key, descent.path, bundle_prefix(descent.path))

\* The parent keys of `map` the last descent mapped to `key`.
SourcesOf(map, key) == {k \in DOMAIN map : DescentKeyMap(k) = key}

\* C11: when a descent maps several parent keys to one child key, the child
\* holds the value of the parent key that is greatest in the order Main <
\* Path < MultiArchIndex < MultiArchCpuType < PathMultiArchIndex <
\* PathMultiArchCpuType; so in the two bundle descents the value of a key at
\* `path` overrides the parent's value for the path-less key.
C11_CollisionRule ==
    descent.op # "none" =>
        \A field \in ScopedFields :
            /\ \A key \in DOMAIN settings[field] :
                  \E k \in SourcesOf(parent[field], key) :
                      /\ \A o \in SourcesOf(parent[field], key) \ {k} :
                            ClaimedRank(o.variant) < ClaimedRank(k.variant)
                      /\ settings[field][key] = parent[field][k]
            /\ descent.op \in {"bundle_macho", "nested_bundle"} =>
                  \A k \in DOMAIN parent[field] :
                      IsPathScope(k) /\ k.path = descent.path =>
                          /\ Pathless(k) \in DOMAIN settings[field]
                          /\ settings[field][Pathless(k)] = parent[field][k]

C11_Witness ==
    /\ descent.op = "bundle_macho"
    /\ {Main, Path(descent.path)} \subseteq DOMAIN parent.entitlements
    /\ parent.entitlements[Main] # parent.entitlements[Path(descent.path)]
    /\ settings.entitlements[Main] = parent.entitlements[Path(descent.path)]

C11_WitnessQualified ==
    /\ descent.op = "nested_bundle"
    /\ {MultiArchIndex(0), PathMultiArchIndex(descent.path, 0)}
          \subseteq DOMAIN parent.identifiers
    /\ settings.identifiers[MultiArchIndex(0)]
          = parent.identifiers[PathMultiArchIndex(descent.path, 0)]

\* C12: a descent leaves the settings it is called on as they were (they
\* are the parent of the derived settings, all fields unchanged) and the
\* derived settings carry their signing key, certificate chain, time-stamp
\* URL, team name and digest type, at every step of every sequence of
\* descents.
C12_DescentPure ==
    [][/\ parent' = settings
       /\ \A field \in GlobalFields : settings'[field] = settings[field]
       /\ \A field \in GlobalFields : settings'[field] = parent'[field]]_vars

C12_Witness ==
    /\ descent.op = "nested_macho"
    /\ descent.depth = MaxDepth
    /\ settings.signing_key # <<>>
    /\ settings.certificates # <<>>
    /\ settings.time_stamp_url # <<>>
    /\ settings.team_name # <<>>
    /\ settings.digest_type = "Sha1"
    /\ settings # parent

-----------------------------------------------------------------------------
(* Properties of the scope strings.                                        *)

\* The integer a digit string denotes.
RECURSIVE DecimalValue(_)
DecimalValue(number) ==
    IF number = <<>> THEN 0
    ELSE 10 * DecimalValue(SubSeq(number, 1, Len(number) - 1))
         + (number[Len(number)] - CHAR_0)

\* The CPU constant the documentation gives for a recognized name.
ClaimedCpuType(name) == (CHOOSE cpu \in RecognizedCpuNames : cpu.name = name).cpu_type

\* The scope the documented grammar gives for a string of a documented form.
ClaimedScope(form) ==
    CASE form.form = "main" -> Main
      [] form.form = "index" -> MultiArchIndex(DecimalValue(form.number))
      [] form.form = "cpu_int" -> MultiArchCpuType(DecimalValue(form.number))
      [] form.form = "cpu_name" -> MultiArchCpuType(ClaimedCpuType(form.name))
      [] form.form = "path" -> Path(form.path)
      [] form.form = "path_index" ->
            PathMultiArchIndex(form.path, DecimalValue(form.number))
      [] form.form = "path_cpu_int" ->
            PathMultiArchCpuType(form.path, DecimalValue(form.number))
      [] form.form = "path_cpu_name" ->
            PathMultiArchCpuType(form.path, ClaimedCpuType(form.name))

\* The strings the grammar speaks of: the eight forms, where the string of
\* the form <path> holds no '@' and the path of <path>@... is not empty
\* and does not start with '@'.
DocumentedForm(form) ==
    /\ form.form \in {"main", "index", "cpu_int", "cpu_name", "path", "path_index",
                      "path_cpu_int", "path_cpu_name"}
    /\ form.form = "path" => \A i \in 1..Len(form.path) : form.path[i] # CHAR_AT
    /\ form.form \in {"path_index", "path_cpu_int", "path_cpu_name"} =>
          form.path # <<>> /\ form.path[1] # CHAR_AT

\* C13: try_from maps "@main" to Main, "@<int>" to MultiArchIndex(int),
\* "@[cpu_type=<int>]" to MultiArchCpuType(int), "@[cpu_type=<name>]" with a
\* recognized name to MultiArchCpuType of the name's CPU constant, a string
\* without '@' to Path(string), "<path>@<int>" to PathMultiArchIndex(path, int)
\* and "<path>@[cpu_type=<int or name>]" to PathMultiArchCpuType(path, cpu).
C13_ScopeParsing ==
    scope_result # NotParsed /\ DocumentedForm(scope_form) =>
        scope_result = ScopeResult("Ok", ClaimedScope(scope_form))

\* "a/b@[cpu_type=arm64_32]" has been parsed.
C13_Witness ==
    /\ scope_form.form = "path_cpu_name"
    /\ scope_form.path = PathASlashB
    /\ ClaimedCpuType(scope_form.name) = CPU_TYPE_ARM64_32
    /\ scope_result = ScopeResult("Ok", PathMultiArchCpuType(PathASlashB, CPU_TYPE_ARM64_32))

\* C14: for every SettingsScope value x of each of the six forms, formatting
\* x to its string and parsing that string with try_from yields x.
C14_RoundTrip ==
    scope_form.form = "display" /\ scope_result # NotParsed =>
        scope_result = ScopeResult("Ok", scope_form.scope)

-----------------------------------------------------------------------------
(* Properties of the Code Directory and of the SuperBlob.                  *)

\* The settings create_superblob was last called with, and the Code
\* Directory of the slice's old signature (<<>> or <<cd>>).
SignedSettings == slice_settings(LocalsSlice)

PreviousCodeDirectory ==
    LET signature == slice_signature(LocalsSlice)
    IN  IF signature.kind = "Ok" /\ signature.signature # <<>>
        THEN signature.signature[1].code_directory
        ELSE <<>>

\* The blobs of the last SuperBlob with the slot `slot`.
BlobsAt(slot) == {i \in 1..Len(last_blobs) : last_blobs[i].slot = slot}

\* C15: the base of the Code Directory's flags is the Main-scope flags if
\* the settings provide them (replacing the previous Code Directory's), else
\* the previous Code Directory's flags, else empty; ADHOC is set if and only
\* if no signing key is configured; LINKER_SIGNED is always cleared.
C15_EffectiveFlags ==
    last_code_directory # <<>> =>
        LET scope_flags == MapGet(SignedSettings.code_signature_flags, Main)
            base == IF scope_flags # <<>> THEN scope_flags[1]
                    ELSE IF PreviousCodeDirectory # <<>>
                    THEN PreviousCodeDirectory[1].flags
                    ELSE {}
            flags == last_code_directory[1].flags
        IN  /\ flags \ {"ADHOC"} = base \ {"ADHOC", "LINKER_SIGNED"}
            /\ "ADHOC" \in flags <=> settings.signing_key = <<>>
            /\ "LINKER_SIGNED" \notin flags

\* With a key, scope flags {FORCE_HARD, ADHOC, LINKER_SIGNED} over an old
\* Code Directory with RUNTIME give {FORCE_HARD}.
C15_Witness ==
    /\ last_code_directory # <<>>
    /\ settings.signing_key # <<>>
    /\ MapGet(SignedSettings.code_signature_flags, Main)
           = <<{"FORCE_HARD", "ADHOC", "LINKER_SIGNED"}>>
    /\ PreviousCodeDirectory # <<>>
    /\ "RUNTIME" \in PreviousCodeDirectory[1].flags
    /\ last_code_directory[1].flags = {"FORCE_HARD"}

\* C16: in every SuperBlob create_superblob produces, the Signature slot is
\* present if and only if a signing key is configured, and the ADHOC flag
\* of its Code Directory is set if and only if the Signature slot is absent.
C16_AdhocSignatureCoupling ==
    last_blobs # <<>> =>
        /\ last_blobs[1].data = code_directory_bytes(last_code_directory[1])
        /\ BlobsAt(SlotSignature) # {} <=> settings.signing_key # <<>>
        /\ "ADHOC" \in last_code_directory[1].flags <=> BlobsAt(SlotSignature) = {}

\* A SuperBlob signed with a key over an old ad-hoc Code Directory.
C16_Witness ==
    /\ last_blobs # <<>>
    /\ settings.signing_key # <<>>
    /\ MapGet(SignedSettings.code_signature_flags, Main) = <<>>
    /\ PreviousCodeDirectory # <<>>
    /\ "ADHOC" \in PreviousCodeDirectory[1].flags
    /\ BlobsAt(SlotSignature) = {Len(last_blobs)}
    /\ "ADHOC" \notin last_code_directory[1].flags

\* C17: the blobs create_superblob assembles are in strictly ascending slot
\* order: the Code Directory (slot 0) first, then the Requirement Set (slot
\* 2) if emitted, then the Entitlements (slot 5) if emitted, then the
\* Signature (slot 0x10000) if emitted; no slot appears twice.  The index of
\* the serialized SuperBlob lists them in that order.
C17_SlotOrder ==
    last_blobs # <<>> =>
        /\ last_blobs[1].slot = SlotCodeDirectory
        /\ \A i \in 1..Len(last_blobs) :
              last_blobs[i].slot \in {SlotCodeDirectory, SlotRequirementSet,
                                      SlotEntitlements, SlotSignature}
        /\ \A i, j \in 1..Len(last_blobs) :
              i < j => last_blobs[i].slot < last_blobs[j].slot
        /\ superblob # <<>> =>
              /\ superblob[3] = Len(last_blobs)
              /\ \A i \in 1..Len(last_blobs) : superblob[2 + 2 * i] = last_blobs[i].slot

\* A SuperBlob with all four blobs has been serialized.
C17_Witness ==
    /\ superblob # <<>>
    /\ Len(last_blobs) = 4
    /\ [i \in 1..4 |-> last_blobs[i].slot]
           = <<SlotCodeDirectory, SlotRequirementSet, SlotEntitlements, SlotSignature>>

\* The entitlements the caller's settings hold for the slice being signed:
\* those of the slice's CPU type, else of its index, else of the main scope.
SliceEntitlements ==
    LET cpu == MultiArchCpuType(CpuTypeOf(Machos(LocalsSlice)))
        idx == MultiArchIndex(LocalsSlice)
    IN  IF cpu \in DOMAIN settings.entitlements THEN <<settings.entitlements[cpu]>>
        ELSE IF idx \in DOMAIN settings.entitlements THEN <<settings.entitlements[idx]>>
        ELSE MapGet(settings.entitlements, Main)

\* C18: a Requirement Set blob is emitted iff the Main scope carries
\* designated-requirement expressions, an Entitlements blob iff it carries
\* entitlements; the Code Directory of the same SuperBlob has, for each
\* emitted blob, a special hash equal to the digest of the blob's bytes as
\* embedded, and no special hash for a blob that is not emitted.  For a fat
\* binary the Entitlements blob is that of the slice's own entitlements.
C18_SpecialBlobBinding ==
    last_blobs # <<>> =>
        /\ BlobsAt(SlotRequirementSet) # {}
              <=> MapGet(SignedSettings.designated_requirement, Main) # <<>>
        /\ BlobsAt(SlotEntitlements) # {}
              <=> MapGet(SignedSettings.entitlements, Main) # <<>>
        /\ \A slot \in {SlotRequirementSet, SlotEntitlements} :
              IF BlobsAt(slot) # {}
              THEN /\ slot \in DOMAIN last_code_directory[1].special_hashes
                   /\ \A i \in BlobsAt(slot) :
                         last_code_directory[1].special_hashes[slot]
                             = digest(SignedSettings.digest_type, last_blobs[i].data)
              ELSE slot \notin DOMAIN last_code_directory[1].special_hashes
        /\ input.fat =>
              IF SliceEntitlements # <<>>
              THEN \E i \in BlobsAt(SlotEntitlements) :
                      last_blobs[i].data = entitlements_bytes(SliceEntitlements[1])
              ELSE BlobsAt(SlotEntitlements) = {}

\* A slice of a fat binary carries the entitlements scoped to its CPU type,
\* and its Code Directory their digest and no Requirement Set digest.
C18_Witness ==
    /\ last_blobs # <<>>
    /\ input.fat
    /\ Main \notin DOMAIN settings.entitlements
    /\ SliceEntitlements # <<>>
    /\ BlobsAt(SlotEntitlements) # {}
    /\ BlobsAt(SlotRequirementSet) = {}
    /\ SlotEntitlements \in DOMAIN last_code_directory[1].special_hashes
    /\ SlotRequirementSet \notin DOMAIN last_code_directory[1].special_hashes

\* The special hash the Code Directory must have for the slot of the
\* Info.plist or of the Code Resources: <<>> for none.
ClaimedSpecialHash(slot, data) ==
    IF data # <<>> THEN <<digest(SignedSettings.digest_type, data[1])>>
    ELSE IF /\ PreviousCodeDirectory # <<>>
            /\ slot \in DOMAIN PreviousCodeDirectory[1].special_hashes
            /\ \E j \in 1..Len(PreviousCodeDirectory[1].special_hashes[slot]) :
                   PreviousCodeDirectory[1].special_hashes[slot][j] # 0
    THEN <<PreviousCodeDirectory[1].special_hashes[slot]>>
    ELSE <<>>

\* C19: for the Info.plist slot and the Code Resources slot independently,
\* the special hash is the digest of the Main-scope bytes when the settings
\* provide them; otherwise the previous Code Directory's digest for the slot
\* when there is one and it is not all-zero; otherwise the slot is absent.
C19_InheritedSpecialHashes ==
    last_code_directory # <<>> =>
        \A choice \in {[slot |-> SlotInfo,
                        data |-> MapGet(SignedSettings.info_plist_data, Main)],
                       [slot |-> SlotResourceDir,
                        data |-> MapGet(SignedSettings.code_resources_data, Main)]} :
            IF ClaimedSpecialHash(choice.slot, choice.data) # <<>>
            THEN /\ choice.slot \in DOMAIN last_code_directory[1].special_hashes
                 /\ last_code_directory[1].special_hashes[choice.slot]
                        = ClaimedSpecialHash(choice.slot, choice.data)[1]
            ELSE choice.slot \notin DOMAIN last_code_directory[1].special_hashes

\* The settings' Info.plist overrides the old Code Directory's digest, and
\* the old null Code Resources digest is not inherited.
C19_Witness ==
    /\ last_code_directory # <<>>
    /\ MapGet(SignedSettings.info_plist_data, Main) # <<>>
    /\ PreviousCodeDirectory # <<>>
    /\ SlotInfo \in DOMAIN PreviousCodeDirectory[1].special_hashes
    /\ SlotResourceDir \in DOMAIN PreviousCodeDirectory[1].special_hashes
    /\ last_code_directory[1].special_hashes[SlotInfo]
           # PreviousCodeDirectory[1].special_hashes[SlotInfo]
    /\ SlotResourceDir \notin DOMAIN last_code_directory[1].special_hashes

\* An old non-null Info.plist digest is inherited.
C19_WitnessInherited ==
    /\ last_code_directory # <<>>
    /\ MapGet(SignedSettings.info_plist_data, Main) = <<>>
    /\ PreviousCodeDirectory # <<>>
    /\ SlotInfo \in DOMAIN PreviousCodeDirectory[1].special_hashes
    /\ SlotInfo \in DOMAIN last_code_directory[1].special_hashes
    /\ last_code_directory[1].special_hashes[SlotInfo]
           = PreviousCodeDirectory[1].special_hashes[SlotInfo]

\* C20: the ident of the Code Directory is the Main-scope binary identifier
\* when set, else the previous Code Directory's ident; when there is
\* neither, create_code_directory fails with NoIdentifier and there is no
\* Code Directory.
C20_IdentifierResolution ==
    /\ last_code_directory # <<>> =>
          last_code_directory[1].ident
              = IF MapGet(SignedSettings.identifiers, Main) # <<>>
                THEN MapGet(SignedSettings.identifiers, Main)[1]
                ELSE PreviousCodeDirectory[1].ident
    /\ last_code_directory # <<>> =>
          MapGet(SignedSettings.identifiers, Main) # <<>> \/ PreviousCodeDirectory # <<>>
    /\ result = "NoIdentifier" =>
          /\ pc = "failed"
          /\ last_code_directory = <<>>
          /\ MapGet(SignedSettings.identifiers, Main) = <<>>
          /\ PreviousCodeDirectory = <<>>
    /\ pc \in {"intermediate", "pass2", "final"} => last_code_directory # <<>>
    /\ pc = "failed" /\ slice_signature(index).kind = "Ok"
          /\ MapGet(SignedSettings.identifiers, Main) = <<>>
          /\ PreviousCodeDirectory = <<>>
          => result = "NoIdentifier"

\* The second slice of a fat binary has neither identifier nor old Code
\* Directory, after a first slice signed under its scoped identifier.
C20_Witness ==
    /\ result = "NoIdentifier"
    /\ index = 1
    /\ last_code_directory = <<>>
    /\ MultiArchIndex(0) \in DOMAIN settings.identifiers

\* The scope's identifier is preferred to the old Code Directory's.
C20_WitnessScope ==
    /\ last_code_directory # <<>>
    /\ PreviousCodeDirectory # <<>>
    /\ MapGet(SignedSettings.identifiers, Main) # <<>>
    /\ last_code_directory[1].ident # PreviousCodeDirectory[1].ident


-----------------------------------------------------------------------------
(* The code limit.                                                         *)

\* The limit as documented: the dataoff of the code-signature command when
\* there is one, else the end of __LINKEDIT, else the end of the last segment.
ClaimedLimit(macho) ==
    LET signatures == {i \in 1..Len(macho.load_commands) :
                          macho.load_commands[i].cmd = LC_CODE_SIGNATURE}
        linkedits == {i \in 1..Len(macho.segments) :
                          macho.segments[i].segname = SEG_LINKEDIT}
        last == macho.segments[Len(macho.segments)]
    IN  IF signatures # {}
        THEN macho.load_commands[CHOOSE i \in signatures :
                                    \A j \in signatures : i <= j].command[CS_DATAOFF]
        ELSE IF linkedits # {}
        THEN LET linkedit == macho.segments[CHOOSE i \in linkedits :
                                               \A j \in linkedits : i <= j]
             IN  linkedit.fileoff + linkedit.filesize
        ELSE last.fileoff + last.filesize

\* The documented split of a limit (four 16-bit limbs) holds of c.
ClaimedSplit(l, c) ==
    /\ IF l[3] = 0 /\ l[4] = 0
       THEN c.code_limit = <<l[1], l[2]>> /\ c.code_limit_64 = <<>>
       ELSE c.code_limit = <<0, 0>> /\ c.code_limit_64 = <<l>>
    /\ ~(c.code_limit # <<0, 0>> /\ c.code_limit_64 \notin {<<>>, <<Usize(0)>>})

\* C21: the limit is the code-signature command's dataoff when the Mach-O has
\* a signature, else the end of __LINKEDIT, else the end of the last segment;
\* a limit of at most 2^32 - 1 is code_limit with no code_limit_64, a larger
\* one is code_limit_64 with code_limit 0; never are both non-zero.
C21_CodeLimit ==
    /\ (pc = "done" /\ result = "Ok") =>
          ClaimedSplit(Usize(ClaimedLimit(Machos(0))), last_code_directory[1])
    /\ limits # <<>> => ClaimedSplit(limit, limits[1])

\* A limit above u32::MAX has been split.
C21_Witness ==
    /\ limits # <<>>
    /\ limit[3] = 1
    /\ limit[1] = LIMB - 1
    /\ limits[1].code_limit_64 = <<limit>>

\* A Code Directory was made for a file without signature and __LINKEDIT.
C21_WitnessLastSegment ==
    /\ pc = "done" /\ result = "Ok"
    /\ \A i \in 1..Len(Machos(0).segments) : Machos(0).segments[i].segname # SEG_LINKEDIT
    /\ U32Value(last_code_directory[1].code_limit) = Len(macho_data(0))

\* A Code Directory was made for a signed file: the limit is below the file's end.
C21_WitnessSigned ==
    /\ pc = "done" /\ result = "Ok"
    /\ find_signature_data(Machos(0)).kind = "Some"
    /\ U32Value(last_code_directory[1].code_limit) < Len(macho_data(0))
    /\ U32Value(last_code_directory[1].code_limit) > 0


-----------------------------------------------------------------------------
(* Fields inherited from the previous Code Directory.                      *)

\* <<>> or <<cd>>: the Code Directory of the signature the input file had.
InputCodeDirectory ==
    IF slice_signature(0).kind = "Ok" /\ slice_signature(0).signature # <<>>
    THEN slice_signature(0).signature[1].code_directory
    ELSE <<>>

\* C22: exec_seg_flags is the Main-scope value when one is provided, else the
\* previous Code Directory's, else unset; runtime is the previous Code
\* Directory's when there is one, else unset; team_name is the configured team
\* name when set, else the previous Code Directory's, else unset; each field
\* is decided on its own.
C22_InheritedFields ==
    (pc = "done" /\ result = "Ok") =>
        LET cd == last_code_directory[1]
            exec == MapGet(settings.executable_segment_flags, Main)
        IN  /\ exec # <<>> => cd.exec_seg_flags = exec
            /\ (exec = <<>> /\ InputCodeDirectory # <<>>)
                  => cd.exec_seg_flags = InputCodeDirectory[1].exec_seg_flags
            /\ (exec = <<>> /\ InputCodeDirectory = <<>>) => cd.exec_seg_flags = <<>>
            /\ InputCodeDirectory # <<>> => cd.runtime = InputCodeDirectory[1].runtime
            /\ InputCodeDirectory = <<>> => cd.runtime = <<>>
            /\ settings.team_name # <<>> => cd.team_name = settings.team_name
            /\ (settings.team_name = <<>> /\ InputCodeDirectory # <<>>)
                  => cd.team_name = InputCodeDirectory[1].team_name
            /\ (settings.team_name = <<>> /\ InputCodeDirectory = <<>>)
                  => cd.team_name = <<>>

\* exec_seg_flags came from the settings while runtime and team_name were
\* inherited from a Code Directory that has all three.
C22_Witness ==
    /\ pc = "done" /\ result = "Ok"
    /\ InputCodeDirectory # <<>>
    /\ InputCodeDirectory[1].exec_seg_flags = <<{"MAIN_BINARY"}>>
    /\ last_code_directory[1].exec_seg_flags = <<{}>>
    /\ last_code_directory[1].runtime = InputCodeDirectory[1].runtime
    /\ last_code_directory[1].runtime # <<>>
    /\ settings.team_name = <<>>
    /\ last_code_directory[1].team_name = InputCodeDirectory[1].team_name
    /\ last_code_directory[1].team_name # <<>>


-----------------------------------------------------------------------------
(* The width of the digests of a Code Directory.                           *)

\* C26: hash_size of every Code Directory that create_code_directory returns
\* is the digest width of the settings' digest type, and every code hash and
\* every special hash it holds, inherited ones included, is hash_size long.
C26_DigestWidth ==
    (pc = "done" /\ result = "Ok") =>
        LET cd == last_code_directory[1]
        IN  /\ cd.hash_size = hash_len(settings.digest_type)
            /\ \A i \in 1..Len(cd.code_hashes) : Len(cd.code_hashes[i]) = cd.hash_size
            /\ \A slot \in DOMAIN cd.special_hashes :
                  Len(cd.special_hashes[slot]) = cd.hash_size


-----------------------------------------------------------------------------
(* Calls of the CMS signer and of the time-stamp server.                   *)

\* C23: once a slice is signed, create_cms_signature and the time-stamp
\* server have been called exactly once for it when the settings hold a
\* signing key and a time-stamp URL, and never when they hold no signing key.
C23_TimeStampCalls ==
    \A k \in 1..Len(binaries) :
        LET s == slice_settings(k - 1)
        IN  /\ (s.signing_key # <<>> /\ s.time_stamp_url # <<>>)
                  => cms_calls[k] = [cms |-> 1, time_stamp |-> 1]
            /\ s.signing_key = <<>> => cms_calls[k] = [cms |-> 0, time_stamp |-> 0]


-----------------------------------------------------------------------------
(* The fat container.                                                      *)

\* C25: the padding computed for a running offset is the smallest count that
\* brings it to a multiple of 4096: it is below 4096, and 0 when the running
\* offset is a multiple of 4096 already.
C25_PaddingToAlignment ==
    pad_bytes # <<>> =>
        /\ (current_offset + pad_bytes[1]) % FAT_ALIGN = 0
        /\ pad_bytes[1] < FAT_ALIGN
        /\ current_offset % FAT_ALIGN = 0 => pad_bytes[1] = 0


\* The u32 written big-endian in the four bytes at offset `at` of `bytes`.
ReadBE32(bytes, at) ==
    ((bytes[at + 1] * 256 + bytes[at + 2]) * 256 + bytes[at + 3]) * 256 + bytes[at + 4]

\* Of the fat arch record k (1-based) of the written file: its fields.
WrittenArch(k) ==
    LET at == SIZEOF_FAT_HEADER + SIZEOF_FAT_ARCH * (k - 1)
    IN  [cputype |-> ReadBE32(writer, at),
         offset |-> ReadBE32(writer, at + 8),
         size |-> ReadBE32(writer, at + 12)]

\* C24: the output for a fat input of n slices is an 8-byte header, then n
\* records of 20 bytes in the order of the input's slices; each recorded
\* offset is a multiple of 4096, each recorded size is the length of the
\* slice's signed Mach-O, which is written at the recorded offset; the bytes
\* between the records and the payloads and from payload to payload are zero,
\* and no payload reaches into the next one.
C24_FatLayout ==
    (pc = "done" /\ input.fat) =>
        LET n == Len(input.slices)
            EndOf(k) == IF k = 0 THEN SIZEOF_FAT_HEADER + SIZEOF_FAT_ARCH * n
                        ELSE WrittenArch(k).offset + WrittenArch(k).size
        IN  /\ Len(binaries) = n
            /\ Slice(writer, 0, 4) = FAT_MAGIC_BE
            /\ ReadBE32(writer, 4) = n
            /\ \A k \in 1..n :
                  /\ WrittenArch(k).cputype = input.arches[k].cputype
                  /\ WrittenArch(k).offset % FAT_ALIGN = 0
                  /\ WrittenArch(k).size = Len(binaries[k])
                  /\ Slice(writer, WrittenArch(k).offset, EndOf(k)) = binaries[k]
                  /\ EndOf(k - 1) <= WrittenArch(k).offset
                  /\ \A o \in (EndOf(k - 1) + 1)..WrittenArch(k).offset : writer[o] = 0
            /\ Len(writer) = EndOf(n)

\* A fat file of two slices or more has been written.
C24_Witness ==
    /\ pc = "done"
    /\ result = "Ok"
    /\ input.fat
    /\ Len(binaries) >= 2
    /\ WrittenArch(2).offset > WrittenArch(1).offset + WrittenArch(1).size


-----------------------------------------------------------------------------
(* The rewriter on signable files.                                         *)

\* C29: create_macho_with_signature returns, with bytes or with an error, for
\* every Mach-O that passes check_signing_capability: neither the assertion
\* on a segment's fileoff nor the range of the suffix slice aborts it.
C29_RewriterReturns ==
    /\ (pc = "intermediate" /\ check_signing_capability(Machos(index)) = "Ok")
          => create_macho_with_signature(macho_data(index), Machos(index),
                                         placeholder_signature).kind # "Panic"
    /\ (pc = "final"
        /\ check_signing_capability(ParseMachO(intermediate_macho_data)) = "Ok")
          => create_macho_with_signature(intermediate_macho_data,
                                         ParseMachO(intermediate_macho_data),
                                         signature_data).kind # "Panic"
    /\ pc # "panicked"


-----------------------------------------------------------------------------
(* What the rewriter returns can be signed.                                *)

\* data passes check_signing_capability: it has a code-signature command, its
\* last segment is __LINKEDIT, and the signature ends where __LINKEDIT and
\* the file end.
Signable(data) ==
    LET macho == ParseMachO(data)
        commands == {i \in 1..Len(macho.load_commands) :
                        macho.load_commands[i].cmd = LC_CODE_SIGNATURE}
        last == macho.segments[Len(macho.segments)]
    IN  /\ ParseOk(data)
        /\ check_signing_capability(macho) = "Ok"
        /\ commands # {}
        /\ last.segname = SEG_LINKEDIT
        /\ \A i \in commands :
              LET command == macho.load_commands[i].command
              IN  /\ command[CS_DATAOFF] + command[CS_DATASIZE]
                        = last.fileoff + last.filesize
                  /\ last.fileoff + last.filesize = Len(data)

\* C27: the intermediate Mach-O and the final Mach-O of every slice pass
\* check_signing_capability, so the second call of the rewriter gets past its
\* capability check, and what is written can be signed again.
C27_SignabilityPreserved ==
    /\ intermediate_macho_data # <<>> => Signable(intermediate_macho_data)
    /\ \A k \in 1..Len(binaries) : Signable(binaries[k])
    /\ pc = "final" =>
          create_macho_with_signature(intermediate_macho_data,
                                      ParseMachO(intermediate_macho_data),
                                      signature_data).kind = "Ok"
    /\ (pc = "done" /\ ~input.fat) => Signable(writer)

\* A slice has gone through both calls of the rewriter, with a signature
\* longer than the one the file had.
C27_Witness ==
    /\ pc = "done"
    /\ ~input.fat
    /\ Signable(writer)
    /\ Len(writer) > Len(macho_data(0))
    /\ Signable(intermediate_macho_data)


-----------------------------------------------------------------------------
(* The two passes of a run without signing key.                            *)

\* The settings of the slice the closure's locals belong to.
LocalsSettings == slice_settings(IF SliceSigned THEN index - 1 ELSE index)

\* C28: without a signing key the SuperBlob of pass 2 is as long as the one
\* of pass 1, SignatureDataTooLarge does not occur, and the signature written
\* is the SuperBlob of pass 2 followed by exactly 1024 zero bytes.
C28_AdhocPassesAgree ==
    LocalsSettings.signing_key = <<>> =>
        /\ superblob # <<>> => Len(superblob) = placeholder_signature_len
        /\ result # "SignatureDataTooLarge"
        /\ signature_data # <<>> =>
              signature_data = superblob \o Zeros(PLACEHOLDER_SLACK)
        /\ SliceSigned =>
              find_signature_data(ParseMachO(binaries[index])).signature_data
                 = superblob \o Zeros(PLACEHOLDER_SLACK)

\* A slice has been signed without a signing key.
C28_Witness ==
    /\ SliceSigned
    /\ LocalsSettings.signing_key = <<>>
    /\ superblob # <<>>
    /\ Len(superblob) = placeholder_signature_len
    /\ find_signature_data(ParseMachO(binaries[index])).signature_end_offset
          - find_signature_data(ParseMachO(binaries[index])).signature_start_offset
       = Len(superblob) + PLACEHOLDER_SLACK


-----------------------------------------------------------------------------
(* Scope strings that hold an '@'.                                         *)

\* What str::parse of an unsigned integer type reads as digits: decimal
\* digits, after one '+' or none.
IsUnsigned(text) ==
    LET digits == IF text # <<>> /\ text[1] = CHAR_PLUS THEN Tail(text) ELSE text
    IN  /\ digits # <<>>
        /\ \A i \in 1..Len(digits) : digits[i] \in CHAR_0..CHAR_9

\* text is an unsigned integer or [cpu_type=<a recognized name or an
\* unsigned integer>].
IsAtExpr(text) ==
    \/ IsUnsigned(text)
    \/ \E value \in {SubSeq(text, 11, Len(text) - 1)} :
          /\ Len(text) >= 11
          /\ SubSeq(text, 1, 10) = <<91, 99, 112, 117, 95, 116, 121, 112, 101, 61>>
          /\ text[Len(text)] = CHAR_RBRACKET
          /\ \/ IsUnsigned(value)
             \/ \E cpu \in RecognizedCpuNames : cpu.name = value

\* C30: try_from returns a scope or an error for every string and reaches no
\* panic; a string that holds an '@' but does not start with one is split at
\* its last '@': what precedes it is the path of the scope returned, and the
\* result is an error, not a Path, when what follows it is neither an
\* unsigned integer nor [cpu_type=<name or u32>].
C30_TotalAndLastAt ==
    scope_result # NotParsed =>
        /\ scope_result.kind \in {"Ok", "Err"}
        /\ (scope_text # <<>> /\ scope_text[1] # CHAR_AT
            /\ PositionsOf(scope_text, CHAR_AT) # {}) =>
              LET at == CHOOSE i \in PositionsOf(scope_text, CHAR_AT) :
                            \A j \in PositionsOf(scope_text, CHAR_AT) : j <= i
              IN  /\ scope_result.kind = "Ok" =>
                        /\ scope_result.scope.variant
                              \in {"PathMultiArchIndex", "PathMultiArchCpuType"}
                        /\ scope_result.scope.path = SubSeq(scope_text, 1, at - 1)
                        /\ IsAtExpr(SubSeq(scope_text, at + 1, Len(scope_text)))
                  /\ ~IsAtExpr(SubSeq(scope_text, at + 1, Len(scope_text)))
                        => scope_result.kind = "Err"
                  /\ scope_form.form \in {"path_index", "path_cpu_int", "path_cpu_name"}
                        => scope_result.kind = "Ok"

\* A string with two '@' has been parsed to a scope whose path holds the
\* first of them.
C30_Witness ==
    /\ scope_result.kind = "Ok"
    /\ Cardinality(PositionsOf(scope_text, CHAR_AT)) = 2
    /\ scope_text[1] # CHAR_AT
    /\ Cardinality(PositionsOf(scope_result.scope.path, CHAR_AT)) = 1

\* "a@b@x" has been refused.
C30_WitnessError ==
    /\ scope_text = <<97, 64, 98, 64, 120>>
    /\ scope_result.kind = "Err"

====
